---- MODULE Spec2Model ----
(***************************************************************************)
(* A model of the siko type checker's type store and instance resolver and *)
(* of the siko interpreter's call, pattern-matching and class-dispatch     *)
(* machinery.  Each subsystem has its own variables, initial condition and *)
(* next-state relation; a specification of one subsystem keeps the other   *)
(* subsystems' variables at their initial values.                          *)
(***************************************************************************)
EXTENDS Integers, Sequences, FiniteSets, TLC

VARIABLES
    \* interpreter: the call chain of one expression (interpreter.rs)
    origin,      \* FunctionId of the StaticFunctionCall that started the chain
    held,        \* the Value the last call returned (or the abort marker)
    calls,       \* the calls made so far: [callable, args, result, log, aborted]
    \* interpreter: the environment of a Do block being evaluated
    menv,        \* Environment: args and the stack of binding frames
    matches,     \* the match_pattern calls of the last expression evaluated
    mresult,     \* what the last expression evaluated to
    msteps,      \* expressions evaluated so far
    mcase,       \* the last CaseOf, Do or record expression: what it evaluated
    \* interpreter: class member dispatch
    instance_map,  \* TypeInstanceResolver::instance_map, as [class_id, ty, instance_id]
    dispatched,    \* the last call_class_member: member, selector, callee, result
    \* type checker: the type store
    store,         \* TypeStore: variables, indices and the three counters
    last,          \* the last unify: its arguments, the store before, the result
    \* type checker: the instance resolver
    resolver,      \* InstanceResolver: instance_map and auto_derived_instances
    errors,        \* the errors check_conflicts pushed
    checked,       \* check_conflicts has run
    cache,         \* InstanceResolutionCache: [class_id, ty, result]
    asked,         \* the last has_instance or check_instance call and its outcome
    \* interpreter: the thread's INTERPRETER_CONTEXT slot
    slot,          \* the Option<Interpreter> the RefCell holds
    borrows,       \* shared borrows of the RefCell that are alive
    stack,         \* the calls of run and of the re-entry functions not yet returned
    runs,          \* run calls made so far
    slot_log,      \* the last read of the slot, or the last return of run
    crashed,       \* the panic that ended the thread, "" for none
    \* name resolver: one call of Resolver::resolve
    resolve_pc,      \* the pass resolve is in
    resolve_errors,  \* the errors vector of resolve
    resolve_log,     \* the process_instance and process_function calls made
    resolve_result,  \* what resolve returned
    \* type checker: one call of Typechecker::check
    check_pc,        \* the pass check is in
    check_program,   \* the functions of the program: kind and static callees
    check_errors,    \* the errors vector of check
    check_order,     \* untyped_check_order, as check_function_deps returned it
    check_log,       \* the check_untyped_function calls made
    check_result,    \* what check returned
    \* the id counters of the two Program structures
    syntax_program,  \* syntax::Program: its counters
    ir_program,      \* ir::Program: its counters
    issued,          \* the get_<kind>_id calls made: program, kind, id returned
    \* type checker: the walk of the Unifier over expressions (uses store)
    tc_group,        \* the functions of the dependency group being checked
    tc_errors,       \* the errors vector of the walk
    tc_checks,       \* expressions checked so far
    tc_log           \* the last expression checked: its variables, the stores, the errors

varsCall == <<origin, held, calls>>
varsMatch == <<menv, matches, mresult, msteps, mcase>>
varsDispatch == <<instance_map, dispatched>>
varsStore == <<store, last>>
varsResolver == <<resolver, errors, checked>>
varsQuery == <<cache, asked>>
varsSlot == <<slot, borrows, stack, runs, slot_log, crashed>>
varsResolve == <<resolve_pc, resolve_errors, resolve_log, resolve_result>>
\* the front end: name resolution and the passes of the type checker
varsCheck == <<check_pc, check_program, check_errors, check_order, check_log, check_result>>
varsIds == <<syntax_program, ir_program, issued>>
varsInfer == <<tc_group, tc_errors, tc_checks, tc_log>>
varsFront == <<varsResolve, varsCheck, varsIds, varsInfer>>
vars ==
    <<origin, held, calls, menv, matches, mresult, msteps, mcase, instance_map, dispatched,
      store, last, resolver, errors, checked, cache, asked,
      slot, borrows, stack, runs, slot_log, crashed, varsFront>>

\* what the actions of one part leave alone
notCall == <<varsMatch, varsDispatch, varsStore, varsResolver, varsQuery, varsSlot, varsFront>>
notMatch == <<varsCall, varsDispatch, varsStore, varsResolver, varsQuery, varsSlot, varsFront>>
notDispatch == <<varsCall, varsMatch, varsStore, varsResolver, varsQuery, varsSlot, varsFront>>
notStore == <<varsCall, varsMatch, varsDispatch, varsResolver, varsQuery, varsSlot, varsFront>>
notResolver == <<varsCall, varsMatch, varsDispatch, varsStore, varsQuery, varsSlot, varsFront>>
notQuery == <<varsCall, varsMatch, varsDispatch, varsStore, errors, checked, varsSlot, varsFront>>
notSlot == <<varsCall, varsMatch, varsDispatch, varsStore, varsResolver, varsQuery, varsFront>>
\* the interpreter and the type store, which the front end leaves alone
varsBack == <<varsCall, varsMatch, varsDispatch, varsStore, varsResolver, varsQuery, varsSlot>>
notResolve == <<varsBack, varsCheck, varsIds, varsInfer>>
notCheck == <<varsBack, varsResolve, varsIds, varsInfer>>
notIds == <<varsBack, varsResolve, varsCheck, varsInfer>>
notInfer == <<varsCall, varsMatch, varsDispatch, last, varsResolver, varsQuery, varsSlot,
              varsResolve, varsCheck, varsIds>>

\* ------------------------------------------------------------------ bounds

\* largest integer literal used as an argument value
MaxArg == 2
\* longest argument list of one call expression
MaxArgs == 3
\* calls chained on one callable (one static call, then dynamic calls)
MaxCalls == 3
MaxSteps == 3
MaxDepth == 2
MaxVars == 3
MaxUnify == 2
MaxInstances == 3
\* has_instance and check_instance calls made on one set of instances
MaxQueries == 2
\* calls of Interpreter::run in one thread
MaxRuns == 2
\* calls of run and of the re-entry functions that are active at once
MaxNesting == 3
\* instance declarations of one program
MaxDecls == 2
\* functions implemented by one instance declaration
MaxMembers == 2
\* named functions of one program whose bodies resolve processes
MaxBodies == 2
\* functions of the program Typechecker::check is given
MaxFns == 3
\* get_<kind>_id calls made on the two programs together
MaxIds == 4
\* expressions the Unifier checks in one walk
MaxChecks == 2
\* arguments of one call expression the Unifier checks
MaxCallArgs == 2

\* the one element of a singleton set; Only({e(x) : x \in {d}}) is e with d
\* worked out once and named x
Only(S) == CHOOSE x \in S : TRUE

\* all sequences over S of length lo..hi
SeqsOf(S, lo, hi) == UNION {[1..n -> S] : n \in lo..hi}

\* ------------------------------------------------------- concrete types

NamedTy(name) == [k |-> "Named", name |-> name]
FunctionTy(from, to) == [k |-> "Function", from |-> from, to |-> to]
IntTy == NamedTy("Int")
BoolTy == NamedTy("Bool")
TupleTy(items) == [k |-> "Tuple", items |-> items]
BadTy == [k |-> "Unreachable"]

\* ConcreteType::get_func_type: the type left after arg_count arguments
RECURSIVE get_func_type(_, _)
get_func_type(ty, arg_count) ==
    IF arg_count = 0 THEN ty
    ELSE IF ty.k = "Function" THEN get_func_type(ty.to, arg_count - 1)
    ELSE BadTy

\* ------------------------------------------------------------- values

IntValue(v, ty) == [core |-> "Int", v |-> v, ty |-> ty]
BoolValue(v, ty) == [core |-> "Bool", v |-> v, ty |-> ty]
TupleValue(values, ty) == [core |-> "Tuple", values |-> values, ty |-> ty]
RecordValue(type_id, values, ty) ==
    [core |-> "Record", type_id |-> type_id, values |-> values, ty |-> ty]
VariantValue(type_id, index, values, ty) ==
    [core |-> "Variant", type_id |-> type_id, index |-> index, values |-> values, ty |-> ty]
CallableValue(function_id, values, sub_context, ty) ==
    [core |-> "Callable", function_id |-> function_id, values |-> values,
     sub_context |-> sub_context, ty |-> ty]
NoValue == [core |-> "Aborted"]

\* the result of a call: the value, the functions the call's loop executed
\* (each with the arguments of its environment), and whether it aborted
Returned(value, log) == [aborted |-> FALSE, value |-> value, log |-> log]
Aborted(log) == [aborted |-> TRUE, value |-> NoValue, log |-> log]

\* ---------------------------------------------------------- the program

FunctionIds ==
    {"sub", "eq", "inc", "adder", "pair", "triple", "lam", "mklam",
     "next_int", "next_int2", "prev_int", "next_bool", "prev_default", "mark_default"}

\* program.functions: arg_locations.len(), implicit_arg_count and info
arg_locations_len(f) ==
    CASE f = "sub" -> 2 [] f = "eq" -> 2 [] f = "inc" -> 0 [] f = "adder" -> 1 [] f = "pair" -> 2
      [] f = "triple" -> 3 [] f = "lam" -> 1 [] f = "mklam" -> 1
      [] OTHER -> 1

implicit_arg_count(f) == IF f = "lam" THEN 1 ELSE 0

FunctionInfo(f) ==
    CASE f = "sub" -> [kind |-> "NamedFunction", body |-> "", module |-> "Int", name |-> "opSub"]
      [] f = "eq" -> [kind |-> "NamedFunction", body |-> "", module |-> "Int", name |-> "opEq"]
      [] f = "inc" -> [kind |-> "NamedFunction", body |-> "inc.body", module |-> "Main", name |-> "inc"]
      [] f = "adder" -> [kind |-> "NamedFunction", body |-> "adder.body", module |-> "Main", name |-> "adder"]
      [] f = "mklam" -> [kind |-> "NamedFunction", body |-> "mklam.body", module |-> "Main", name |-> "mklam"]
      [] f = "lam" -> [kind |-> "Lambda", body |-> "lam.body"]
      [] f = "pair" -> [kind |-> "RecordConstructor", type_id |-> "Pair", fields |-> 2]
      [] f = "triple" -> [kind |-> "VariantConstructor", type_id |-> "Shape", index |-> 0, items |-> 3]
      [] f = "next_int" -> [kind |-> "NamedFunction", body |-> "next_int.body", module |-> "Main", name |-> "next_int"]
      [] f = "next_int2" -> [kind |-> "NamedFunction", body |-> "next_int2.body", module |-> "Main", name |-> "next_int2"]
      [] f = "prev_int" -> [kind |-> "NamedFunction", body |-> "next_int2.body", module |-> "Main", name |-> "prev_int"]
      [] f = "next_bool" -> [kind |-> "NamedFunction", body |-> "arg0", module |-> "Main", name |-> "next_bool"]
      [] f = "prev_default" -> [kind |-> "NamedFunction", body |-> "arg0", module |-> "Main", name |-> "prev"]
      [] f = "mark_default" -> [kind |-> "NamedFunction", body |-> "lit1", module |-> "Main", name |-> "mark"]

\* program.function_types, as concrete types under the empty substitution
function_types(f) ==
    CASE f = "sub" -> FunctionTy(IntTy, FunctionTy(IntTy, IntTy))
      [] f = "eq" -> FunctionTy(IntTy, FunctionTy(IntTy, BoolTy))
      [] f = "inc" -> FunctionTy(IntTy, IntTy)
      [] f = "adder" -> FunctionTy(IntTy, FunctionTy(IntTy, IntTy))
      [] f = "mklam" -> FunctionTy(IntTy, FunctionTy(IntTy, IntTy))
      [] f = "lam" -> FunctionTy(IntTy, FunctionTy(IntTy, IntTy))
      [] f = "pair" -> FunctionTy(IntTy, FunctionTy(IntTy, NamedTy("Pair")))
      [] f = "triple" ->
           FunctionTy(IntTy, FunctionTy(IntTy, FunctionTy(IntTy, NamedTy("Shape"))))
      [] f = "next_bool" -> FunctionTy(BoolTy, BoolTy)
      [] OTHER -> FunctionTy(IntTy, IntTy)

\* program.exprs: the bodies of the functions above
\*   inc = sub 1          adder x = sub x          mklam x = \y -> sub x y
\*   next_int x = sub x 1     next_int2 x = sub 1 x     prev_int x = sub 1 x
\*   next_bool x = x          prev x = x (default)      mark x = 1 (default)
\* and the guards and case bodies of the patterns below
Exprs(e) ==
    CASE e = "inc.body" -> [kind |-> "StaticFunctionCall", function_id |-> "sub", args |-> <<"lit1">>]
      [] e = "adder.body" -> [kind |-> "StaticFunctionCall", function_id |-> "sub", args |-> <<"arg0">>]
      [] e = "mklam.body" -> [kind |-> "StaticFunctionCall", function_id |-> "lam", args |-> <<"arg0">>]
      [] e = "lam.body" -> [kind |-> "StaticFunctionCall", function_id |-> "sub", args |-> <<"cap0", "arg0">>]
      [] e = "next_int.body" -> [kind |-> "StaticFunctionCall", function_id |-> "sub", args |-> <<"arg0", "lit1">>]
      [] e = "next_int2.body" -> [kind |-> "StaticFunctionCall", function_id |-> "sub", args |-> <<"lit1", "arg0">>]
      [] e = "lit1" -> [kind |-> "IntegerLiteral", v |-> 1]
      [] e = "lit2" -> [kind |-> "IntegerLiteral", v |-> 2]
      [] e = "bind_x_1" -> [kind |-> "Bind", pattern_id |-> "x", expr_id |-> "lit1"]
      [] e = "bind_x_2" -> [kind |-> "Bind", pattern_id |-> "x", expr_id |-> "lit2"]
      [] e = "bind_y_x" -> [kind |-> "Bind", pattern_id |-> "y", expr_id |-> "val_x"]
      [] e = "bind_one_x" -> [kind |-> "Bind", pattern_id |-> "one", expr_id |-> "val_x"]
      [] e = "arg0" -> [kind |-> "ArgRef", captured |-> FALSE, index |-> 0]
      [] e = "cap0" -> [kind |-> "ArgRef", captured |-> TRUE, index |-> 0]
      [] e = "val_x" -> [kind |-> "ExprValue", pattern_id |-> "x"]
      [] e = "val_y" -> [kind |-> "ExprValue", pattern_id |-> "y"]
      [] e = "x_eq_1" -> [kind |-> "StaticFunctionCall", function_id |-> "eq", args |-> <<"val_x", "lit1">>]

\* program.patterns
Patterns(p) ==
    CASE p = "x" -> [kind |-> "Binding"]
      [] p = "y" -> [kind |-> "Binding"]
      [] p = "one" -> [kind |-> "IntegerLiteral", v |-> 1]
      [] p = "yes" -> [kind |-> "BoolLiteral", v |-> TRUE]
      [] p = "wild" -> [kind |-> "Wildcard"]
      [] p = "typed_y" -> [kind |-> "Typed", id |-> "y"]
      [] p = "x_y" -> [kind |-> "Tuple", ids |-> <<"x", "y">>]
      [] p = "x_one" -> [kind |-> "Tuple", ids |-> <<"x", "one">>]
      [] p = "pair_x_one" -> [kind |-> "Record", type_id |-> "Pair", ids |-> <<"x", "one">>]
      [] p = "none" -> [kind |-> "Variant", type_id |-> "Opt", index |-> 0, ids |-> << >>]
      [] p = "some_x" -> [kind |-> "Variant", type_id |-> "Opt", index |-> 1, ids |-> <<"x">>]
      [] p = "x_is_1" -> [kind |-> "Guarded", id |-> "x", guard |-> "x_eq_1"]

PatternIds ==
    {"x", "y", "one", "yes", "wild", "typed_y", "x_y", "x_one", "pair_x_one",
     "none", "some_x", "x_is_1"}

\* --------------------------------------------------------- environment

\* the patterns that bind a name (Pattern::Binding)
BindingIds == {"x", "y"}
Unbound == [core |-> "Unbound"]
EmptyFrame == [p \in BindingIds |-> Unbound]

\* Environment::new(callee, args, implicit_arg_count): one frame, no binding
Environment_new(function_id, args, implicit) ==
    [function_id |-> function_id, args |-> args, implicit_arg_count |-> implicit,
     frames |-> <<EmptyFrame>>]

\* Environment::block_child(parent): an inner frame on top of the parent's
block_child(environment) ==
    [environment EXCEPT !.frames = Append(environment.frames, EmptyFrame)]

\* Environment::add(pattern_id, value): a binding in the innermost frame
add(environment, pattern_id, value) ==
    [environment EXCEPT !.frames[Len(environment.frames)][pattern_id] = value]

\* Environment::get_value(pattern_id): the innermost frame that binds it
RECURSIVE lookup(_, _, _)
lookup(frames, depth, pattern_id) ==
    IF depth = 0 THEN Unbound
    ELSE IF frames[depth][pattern_id] # Unbound THEN frames[depth][pattern_id]
    ELSE lookup(frames, depth - 1, pattern_id)

get_value(environment, pattern_id) ==
    lookup(environment.frames, Len(environment.frames), pattern_id)

\* Environment::get_arg: a non-captured reference is offset by the implicit count
get_arg(environment, arg_ref) ==
    IF arg_ref.captured THEN environment.args[arg_ref.index + 1]
    ELSE environment.args[arg_ref.index + environment.implicit_arg_count + 1]

\* Environment::get_arg_by_index
get_arg_by_index(environment, index) == environment.args[index + 1]

\* ------------------------------------------------- Interpreter::call

needed_arg_count(f) == arg_locations_len(f) + implicit_arg_count(f)

RECURSIVE call_loop(_, _, _)
RECURSIVE execute(_, _, _, _)
RECURSIVE eval_expr(_, _, _)
RECURSIVE eval_args(_, _, _)

\* Vec::extend as call uses it (callable.values.extend(args) and
\* callable.values.extend(rest)): the new values go after the collected ones
extend_prepending(values, more) == more \o values
extend(values, more) == values \o more

\* callable.values.split_off(needed_arg_count): the values from `at` on
split_off_dropping(values, at) == << >>
split_off(values, at) == SubSeq(values, at + 1, Len(values))

\* the value call returns for an under-supplied callable: the callable with
\* everything collected so far, under the type the loop tracks
partial_application_shortened(callable, callable_func_ty) ==
    CallableValue(callable.function_id, callable.values, callable.sub_context,
                  get_func_type(callable_func_ty, Len(callable.values)))
partial_application(callable, callable_func_ty) ==
    CallableValue(callable.function_id, callable.values, callable.sub_context,
                  callable_func_ty)

\* one entry of a call's log: the function executed, the arguments of its
\* environment, the arguments kept back, and what the execution returned
Executed(function_id, call_args, rest, result) ==
    [function_id |-> function_id, args |-> call_args, rest |-> rest,
     result |-> result.value, failed |-> result.aborted]

\* the loop of Interpreter::call: `callable` already holds the appended
\* arguments, callable_func_ty is the type the loop tracks
call_loop(callable, callable_func_ty, log) ==
    IF needed_arg_count(callable.function_id) > Len(callable.values)
    THEN Returned(partial_application(callable, callable_func_ty), log)
    ELSE
        LET needed == needed_arg_count(callable.function_id)
            rest == split_off(callable.values, needed)
            call_args == SubSeq(callable.values, 1, needed)
            environment == Environment_new(callable.function_id, call_args,
                                           implicit_arg_count(callable.function_id))
            func_ty == get_func_type(callable_func_ty, Len(call_args))
        IN  Only({
              LET log2 == Append(log, Executed(callable.function_id, call_args, rest, result))
              IN  IF result.aborted THEN Aborted(log2)
                  ELSE IF rest # << >>
                  THEN IF result.value.core = "Callable"
                       THEN call_loop([result.value EXCEPT
                                          !.values = extend(result.value.values, rest)],
                                      result.value.ty, log2)
                       ELSE Aborted(log2)
                  ELSE Returned(result.value, log2) :
              result \in {IF func_ty = BadTy THEN Aborted(<< >>)
                          ELSE execute(callable.function_id, environment,
                                       callable.sub_context, func_ty)}})

\* Interpreter::call
call(callable_value, args) ==
    IF callable_value.core = "Callable"
    THEN call_loop([callable_value EXCEPT !.values = extend(callable_value.values, args)],
                   callable_value.ty, << >>)
    ELSE Aborted(<< >>)

\* Interpreter::eval_expr on the argument expressions of a call, left to right
eval_args(arg_exprs, environment, sub_context) ==
    IF arg_exprs = << >> THEN [aborted |-> FALSE, values |-> << >>]
    ELSE Only({IF first.aborted \/ others.aborted
               THEN [aborted |-> TRUE, values |-> << >>]
               ELSE [aborted |-> FALSE, values |-> <<first.value>> \o others.values] :
               first \in {eval_expr(Head(arg_exprs), environment, sub_context)},
               others \in {eval_args(Tail(arg_exprs), environment, sub_context)}})

\* Interpreter::eval_expr: the expression forms the program above uses
eval_expr(expr_id, environment, sub_context) ==
    LET expr == Exprs(expr_id)
    IN  CASE expr.kind = "IntegerLiteral" -> Returned(IntValue(expr.v, IntTy), << >>)
          [] expr.kind = "ArgRef" -> Returned(get_arg(environment, expr), << >>)
          [] expr.kind = "ExprValue" ->
                LET value == get_value(environment, expr.pattern_id)
                IN  IF value = Unbound THEN Aborted(<< >>) ELSE Returned(value, << >>)
          [] expr.kind = "StaticFunctionCall" ->
                LET callable == CallableValue(expr.function_id, << >>, expr_id,
                                              function_types(expr.function_id))
                IN  Only({IF arg_values.aborted THEN Aborted(<< >>)
                          ELSE call(callable, arg_values.values) :
                          arg_values \in {eval_args(expr.args, environment, sub_context)}})

\* the extern functions of data_int.rs the program uses
call_extern(module, name, environment, ty) ==
    IF module = "Int" /\ name = "opSub"
    THEN LET l == get_arg_by_index(environment, 0)
             r == get_arg_by_index(environment, 1)
         IN  IF l.core = "Int" /\ r.core = "Int"
             THEN Returned(IntValue(l.v - r.v, ty), << >>)
             ELSE Aborted(<< >>)
    ELSE IF module = "Int" /\ name = "opEq"
    THEN LET l == get_arg_by_index(environment, 0)
             r == get_arg_by_index(environment, 1)
         IN  IF l.core = "Int" /\ r.core = "Int"
             THEN Returned(BoolValue(l.v = r.v, BoolTy), << >>)
             ELSE Aborted(<< >>)
    ELSE Aborted(<< >>)

\* Interpreter::execute
execute(id, environment, sub_context, expr_ty) ==
    LET info == FunctionInfo(id)
    IN  CASE info.kind = "NamedFunction" ->
                IF info.body # "" THEN eval_expr(info.body, environment, sub_context)
                ELSE call_extern(info.module, info.name, environment, expr_ty)
          [] info.kind = "Lambda" -> eval_expr(info.body, environment, sub_context)
          [] info.kind = "VariantConstructor" ->
                Returned(VariantValue(info.type_id, info.index,
                            [i \in 1..info.items |-> get_arg_by_index(environment, i - 1)],
                            expr_ty), << >>)
          [] info.kind = "RecordConstructor" ->
                Returned(RecordValue(info.type_id,
                            [i \in 1..info.fields |-> get_arg_by_index(environment, i - 1)],
                            expr_ty), << >>)

\* ------------------------------------------ Interpreter::match_pattern

\* what match_pattern leaves: the boolean it returns, the environment it
\* worked on, and whether the evaluator aborted inside it
Matched(matched, environment) ==
    [matched |-> matched, environment |-> environment, aborted |-> FALSE]
MatchAborted(environment) ==
    [matched |-> FALSE, environment |-> environment, aborted |-> TRUE]

RECURSIVE match_pattern(_, _, _, _)
RECURSIVE match_items(_, _, _, _, _)

\* the loop over the sub-patterns of a Tuple, Record or Variant pattern:
\* sub-pattern index against vs[index], false at the first that fails
match_items(ids, vs, index, environment, sub_context) ==
    IF index > Len(ids) THEN Matched(TRUE, environment)
    ELSE IF index > Len(vs) THEN MatchAborted(environment)
    ELSE Only({IF r.aborted \/ ~r.matched THEN r
               ELSE match_items(ids, vs, index + 1, r.environment, sub_context) :
               r \in {match_pattern(ids[index], vs[index], environment, sub_context)}})

match_pattern(pattern_id, value, environment, sub_context) ==
    LET pattern == Patterns(pattern_id)
    IN  CASE pattern.kind = "Binding" ->
                Matched(TRUE, add(environment, pattern_id, value))
          [] pattern.kind = "Tuple" ->
                IF value.core = "Tuple"
                THEN match_items(pattern.ids, value.values, 1, environment, sub_context)
                ELSE Matched(FALSE, environment)
          [] pattern.kind = "Record" ->
                IF value.core = "Record" /\ value.type_id = pattern.type_id
                THEN match_items(pattern.ids, value.values, 1, environment, sub_context)
                ELSE Matched(FALSE, environment)
          [] pattern.kind = "Variant" ->
                IF /\ value.core = "Variant"
                   /\ value.type_id = pattern.type_id
                   /\ value.index = pattern.index
                THEN match_items(pattern.ids, value.values, 1, environment, sub_context)
                ELSE Matched(FALSE, environment)
          [] pattern.kind = "Guarded" ->
                Only({IF r.aborted \/ ~r.matched THEN r
                      ELSE Only({IF guard_value.aborted \/ guard_value.value.core # "Bool"
                                 THEN MatchAborted(r.environment)
                                 ELSE Matched(guard_value.value.v, r.environment) :
                                 guard_value \in
                                    {eval_expr(pattern.guard, r.environment, sub_context)}}) :
                      r \in {match_pattern(pattern.id, value, environment, sub_context)}})
          [] pattern.kind = "Typed" ->
                match_pattern(pattern.id, value, environment, sub_context)
          [] pattern.kind = "Wildcard" -> Matched(TRUE, environment)
          [] pattern.kind = "IntegerLiteral" ->
                Matched(value.core = "Int" /\ value.v = pattern.v, environment)
          [] pattern.kind = "BoolLiteral" ->
                Matched(value.core = "Bool" /\ value.v = pattern.v, environment)

\* --------------------------------- the expressions of a Do block's loop

\* the values an expression of the block can evaluate to
MatchValues ==
    LET ints == {IntValue(v, IntTy) : v \in 1..MaxArg}
    IN  ints
        \cup {BoolValue(b, BoolTy) : b \in BOOLEAN}
        \cup {TupleValue(<<a, b>>, TupleTy(<<IntTy, IntTy>>)) : a, b \in ints}
        \cup {RecordValue("Pair", <<a, b>>, NamedTy("Pair")) : a, b \in ints}
        \cup {VariantValue("Opt", 0, << >>, NamedTy("Opt"))}
        \cup {VariantValue("Opt", 1, <<a>>, NamedTy("Opt")) : a \in ints}

\* one call of match_pattern as its caller sees it
MatchRecord(pattern_id, value, before, r) ==
    [pattern_id |-> pattern_id, value |-> value, before |-> before,
     after |-> r.environment, matched |-> r.matched, aborted |-> r.aborted]

Unit == TupleValue(<< >>, TupleTy(<< >>))
Evaluated(value) == [kind |-> "Value", value |-> value]
Panicked == [kind |-> "Aborted"]
\* the result of an evaluation that gave a value or aborted
ValueOf(r) == IF r.aborted THEN Panicked ELSE Evaluated(r.value)

\* the loop of Expr::Do is at an expression it can still evaluate
Running ==
    /\ mresult # Panicked
    /\ msteps < MaxSteps

\* Expr::Bind(pattern_id, expr_id), its right-hand side having evaluated to
\* `value`: the pattern is matched into the environment of the block and
\* the match is asserted
Bind(pattern_id, value) ==
    /\ Running
    /\ \E r \in {match_pattern(pattern_id, value, menv, "main")} :
           /\ menv' = r.environment
           /\ matches' = <<MatchRecord(pattern_id, value, menv, r)>>
           /\ mresult' = IF r.matched /\ ~r.aborted THEN Evaluated(Unit) ELSE Panicked
    /\ msteps' = msteps + 1
    /\ mcase' = [kind |-> "None"]
    /\ UNCHANGED notMatch

\* the cases of Expr::CaseOf from `index` on, every case tried in the
\* environment the case before it left behind
RECURSIVE try_cases_leaking(_, _, _, _, _)
try_cases_leaking(cases, index, case_value, environment, tried) ==
    IF index > Len(cases)
    THEN [result |-> Panicked, tried |-> tried, chosen |-> 0, bodies |-> << >>]
    ELSE LET case_env == block_child(environment)
         IN  Only({
               LET tried2 == Append(tried, MatchRecord(cases[index].pattern_id, case_value,
                                                       case_env, r))
               IN  IF r.aborted
                   THEN [result |-> Panicked, tried |-> tried2, chosen |-> 0, bodies |-> << >>]
                   ELSE IF r.matched
                   THEN Only({[result |-> IF val.aborted THEN Panicked
                                          ELSE Evaluated(val.value),
                               tried |-> tried2, chosen |-> index,
                               bodies |-> <<cases[index].body>>] :
                              val \in {eval_expr(cases[index].body, r.environment, "main")}})
                   ELSE try_cases_leaking(cases, index + 1, case_value, r.environment, tried2) :
               r \in {match_pattern(cases[index].pattern_id, case_value, case_env, "main")}})

\* the cases of Expr::CaseOf from `index` on: each is tried in a child of
\* the environment, the body of the first that matches is evaluated there;
\* tried are the match_pattern calls made, bodies the case bodies evaluated
RECURSIVE try_cases(_, _, _, _, _)
try_cases(cases, index, case_value, environment, tried) ==
    IF index > Len(cases)
    THEN [result |-> Panicked, tried |-> tried, chosen |-> 0, bodies |-> << >>]
    ELSE LET case_env == block_child(environment)
         IN  Only({
               LET tried2 == Append(tried, MatchRecord(cases[index].pattern_id, case_value,
                                                       case_env, r))
               IN  IF r.aborted
                   THEN [result |-> Panicked, tried |-> tried2, chosen |-> 0, bodies |-> << >>]
                   ELSE IF r.matched
                   THEN Only({[result |-> IF val.aborted THEN Panicked
                                          ELSE Evaluated(val.value),
                               tried |-> tried2, chosen |-> index,
                               bodies |-> <<cases[index].body>>] :
                              val \in {eval_expr(cases[index].body, r.environment, "main")}})
                   ELSE try_cases(cases, index + 1, case_value, environment, tried2) :
               r \in {match_pattern(cases[index].pattern_id, case_value, case_env, "main")}})

Case(pattern_id, body) == [pattern_id |-> pattern_id, body |-> body]

\* the case lists of the program's CaseOf expressions
CaseLists ==
    {<<Case("x_one", "lit1"), Case("x_y", "val_x")>>,
     <<Case("x_is_1", "lit1"), Case("y", "val_y")>>,
     <<Case("x_is_1", "val_x"), Case("wild", "val_x")>>,
     <<Case("none", "lit1"), Case("some_x", "val_x")>>,
     <<Case("pair_x_one", "val_x"), Case("typed_y", "val_x")>>,
     <<Case("one", "lit1"), Case("yes", "lit1")>>}

\* the scrutinee expressions of the program's CaseOf expressions
Scrutinees == {"lit1", "val_x", "val_y"}

\* Expr::CaseOf(body, cases): the scrutinee is evaluated in the environment,
\* then the cases are tried; evaluated lists the expressions eval_expr was
\* called on, in order
CaseOf(body, cases) ==
    /\ Running
    /\ \E case_value \in {eval_expr(body, menv, "main")} :
          IF case_value.aborted
          THEN /\ matches' = << >>
               /\ mresult' = Panicked
               /\ mcase' = [kind |-> "CaseOf", body |-> body, cases |-> cases,
                            value |-> NoValue, chosen |-> 0, evaluated |-> <<body>>]
          ELSE \E r \in {try_cases(cases, 1, case_value.value, menv, << >>)} :
                  /\ matches' = r.tried
                  /\ mresult' = r.result
                  /\ mcase' = [kind |-> "CaseOf", body |-> body, cases |-> cases,
                               value |-> case_value.value, chosen |-> r.chosen,
                               evaluated |-> <<body>> \o r.bodies]
    /\ msteps' = msteps + 1
    /\ UNCHANGED <<menv, notMatch>>

\* Expr::Do entered: its expressions are evaluated in a child environment
EnterDo ==
    /\ Running
    /\ Len(menv.frames) < MaxDepth
    /\ menv' = block_child(menv)
    /\ matches' = << >>
    /\ mresult' = Evaluated(Unit)
    /\ msteps' = msteps + 1
    /\ mcase' = [kind |-> "None"]
    /\ UNCHANGED notMatch

\* Expr::Do left: the child environment is dropped, the value of the last
\* expression is the value of the block
LeaveDo ==
    /\ Running
    /\ Len(menv.frames) > 1
    /\ mresult # [kind |-> "None"]
    /\ menv' = [menv EXCEPT !.frames = SubSeq(menv.frames, 1, Len(menv.frames) - 1)]
    /\ matches' = << >>
    /\ msteps' = msteps + 1
    /\ mcase' = [kind |-> "None"]
    /\ UNCHANGED <<mresult, notMatch>>

NextMatch ==
    \/ \E p \in PatternIds, v \in MatchValues : Bind(p, v)
    \/ \E body \in Scrutinees, cases \in CaseLists : CaseOf(body, cases)
    \/ EnterDo
    \/ LeaveDo

\* ------------------------------------ record expressions and Expr::Do

\* program.typedefs: the fields a record declares, in declaration order
Typedefs(type_id) ==
    CASE type_id = "Pair" -> [fields |-> <<"first", "second">>]
      [] type_id = "Rgb" -> [fields |-> <<"r", "g", "b">>]

RecordIds == {"Pair", "Rgb"}

\* RecordFieldValueExpr: the expression of an item and the index of its field
Item(expr_id, index) == [expr_id |-> expr_id, index |-> index]

\* the dummy value RecordInitialization fills the vector with
Dummy(expr_ty) == BoolValue(FALSE, expr_ty)

\* the loop of RecordInitialization and RecordUpdate over the items from
\* position k on, every value stored at the position of the item in its list
RECURSIVE store_items_by_position(_, _, _, _)
store_items_by_position(items, k, values, environment) ==
    IF k > Len(items) THEN [aborted |-> FALSE, values |-> values]
    ELSE Only({
        IF value.aborted \/ k > Len(values)
        THEN [aborted |-> TRUE, values |-> values]
        ELSE store_items_by_position(items, k + 1, [values EXCEPT ![k] = value.value],
                                     environment)
        : value \in {eval_expr(items[k].expr_id, environment, "main")}})

\* the loop of RecordInitialization and RecordUpdate over the items from
\* position k on: values[item.index] = value; an index past the end panics
RECURSIVE store_items(_, _, _, _)
store_items(items, k, values, environment) ==
    IF k > Len(items) THEN [aborted |-> FALSE, values |-> values]
    ELSE Only({
        IF value.aborted \/ items[k].index + 1 > Len(values)
        THEN [aborted |-> TRUE, values |-> values]
        ELSE store_items(items, k + 1, [values EXCEPT ![items[k].index + 1] = value.value],
                         environment)
        : value \in {eval_expr(items[k].expr_id, environment, "main")}})

\* Expr::RecordInitialization(type_id, items)
record_initialization(type_id, items, environment, expr_ty) ==
    Only({IF r.aborted THEN Panicked
          ELSE Evaluated(RecordValue(type_id, r.values, expr_ty))
          : r \in {store_items(items, 1, [i \in 1..Len(items) |-> Dummy(expr_ty)],
                               environment)}})

\* the updates of Expr::RecordUpdate from position k on: the first whose
\* record id is that of the value is applied
RECURSIVE apply_updates(_, _, _, _, _)
apply_updates(updates, k, value, environment, expr_ty) ==
    IF k > Len(updates) THEN Panicked
    ELSE IF value.type_id = updates[k].record_id
    THEN Only({IF r.aborted THEN Panicked
               ELSE Evaluated(RecordValue(value.type_id, r.values, expr_ty))
               : r \in {store_items(updates[k].items, 1, value.values, environment)}})
    ELSE apply_updates(updates, k + 1, value, environment, expr_ty)

\* Expr::RecordUpdate(record_expr_id, updates)
record_update(record_expr_id, updates, environment, expr_ty) ==
    Only({IF value.aborted THEN Panicked
          ELSE IF value.value.core # "Record" THEN Panicked
          ELSE apply_updates(updates, 1, value.value, environment, expr_ty)
          : value \in {eval_expr(record_expr_id, environment, "main")}})

\* the expressions the items of the program's record expressions use
ItemExprs == {"lit1", "lit2", "val_x"}

\* the item lists of the program's RecordInitialization expressions: every
\* declared field once, in any order
ItemLists(type_id) ==
    LET n == Len(Typedefs(type_id).fields)
        orders == {f \in [1..n -> 0..n - 1] : \A i, j \in 1..n : f[i] = f[j] => i = j}
        exprs == IF n = 2 THEN [1..2 -> ItemExprs] ELSE {<<"lit1", "lit2", "val_x">>}
    IN  {[k \in 1..n |-> Item(e[k], f[k])] : f \in orders, e \in exprs}

\* the update lists of the program's RecordUpdate expressions: one candidate
\* per record that has the field names, the items in any order
Update(record_id, items) == [record_id |-> record_id, items |-> items]
UpdateLists ==
    LET pair == {<<Item("lit1", 0)>>, <<Item("lit2", 1)>>,
                 <<Item("lit1", 1), Item("lit2", 0)>>, <<Item("lit2", 0), Item("lit1", 1)>>}
    IN  {<<Update("Pair", items)>> : items \in pair}
        \cup {<<Update("Rgb", <<Item("lit1", 2)>>), Update("Pair", items)>> : items \in pair}

\* one statement of a block: Expr::Bind matches into the environment and
\* gives the empty tuple, any other expression leaves the environment alone
eval_statement(expr_id, environment) ==
    IF Exprs(expr_id).kind = "Bind"
    THEN Only({
            IF value.aborted THEN [result |-> Panicked, environment |-> environment]
            ELSE Only({[result |-> IF r.matched /\ ~r.aborted THEN Evaluated(Unit)
                                   ELSE Panicked,
                        environment |-> r.environment]
                       : r \in {match_pattern(Exprs(expr_id).pattern_id, value.value,
                                              environment, "main")}})
            : value \in {eval_expr(Exprs(expr_id).expr_id, environment, "main")}})
    ELSE [result |-> ValueOf(eval_expr(expr_id, environment, "main")),
          environment |-> environment]

\* one expression of a Do as the loop went through it
DoStep(expr_id, before, r) ==
    [expr_id |-> expr_id, before |-> before, after |-> r.environment, result |-> r.result]

\* the loop of Expr::Do from position k on, every expression evaluated in
\* a new child of the enclosing environment
RECURSIVE do_loop_fresh(_, _, _, _, _, _)
do_loop_fresh(exprs, k, outer, environment, result, trace) ==
    IF k > Len(exprs) THEN [result |-> result, trace |-> trace]
    ELSE Only({
        IF r.result = Panicked
        THEN [result |-> Panicked, trace |-> Append(trace, DoStep(exprs[k], block_child(outer), r))]
        ELSE do_loop_fresh(exprs, k + 1, outer, r.environment, r.result,
                           Append(trace, DoStep(exprs[k], block_child(outer), r)))
        : r \in {eval_statement(exprs[k], block_child(outer))}})

\* the loop of Expr::Do from position k on: result = eval_expr(expr) in the
\* one child environment of the block
RECURSIVE do_loop(_, _, _, _, _, _)
do_loop(exprs, k, outer, environment, result, trace) ==
    IF k > Len(exprs) THEN [result |-> result, trace |-> trace]
    ELSE Only({
        IF r.result = Panicked
        THEN [result |-> Panicked, trace |-> Append(trace, DoStep(exprs[k], environment, r))]
        ELSE do_loop(exprs, k + 1, outer, r.environment, r.result,
                     Append(trace, DoStep(exprs[k], environment, r)))
        : r \in {eval_statement(exprs[k], environment)}})

\* Expr::Do(exprs): the child environment, the assert, the loop
eval_do(exprs, environment) ==
    IF exprs = << >> THEN [result |-> Panicked, trace |-> << >>]
    ELSE do_loop(exprs, 1, environment, block_child(environment), Evaluated(Unit), << >>)

\* the expression lists of the program's Do blocks; the empty one is what
\* the assert of Expr::Do is there for
DoLists ==
    {<< >>, <<"lit1">>, <<"val_x">>, <<"bind_x_2">>, <<"lit1", "lit2">>,
     <<"bind_x_1", "val_x">>, <<"bind_x_1", "bind_y_x", "val_y">>,
     <<"bind_x_1", "bind_x_2", "val_x">>, <<"bind_y_x", "val_y">>,
     <<"bind_one_x", "val_x">>, <<"val_y", "bind_x_1">>}

\* Expr::RecordInitialization(type_id, items) is evaluated
RecordInitialization(type_id, items) ==
    /\ Running
    /\ mresult' = record_initialization(type_id, items, menv, NamedTy(type_id))
    /\ mcase' = [kind |-> "RecordInitialization", type_id |-> type_id, items |-> items]
    /\ matches' = << >>
    /\ msteps' = msteps + 1
    /\ UNCHANGED <<menv, notMatch>>

\* Expr::RecordUpdate(record_expr_id, updates) is evaluated
RecordUpdate(record_expr_id, updates) ==
    /\ Running
    /\ mresult' = record_update(record_expr_id, updates, menv, NamedTy("Pair"))
    /\ mcase' = [kind |-> "RecordUpdate", record_expr_id |-> record_expr_id,
                 updates |-> updates]
    /\ matches' = << >>
    /\ msteps' = msteps + 1
    /\ UNCHANGED <<menv, notMatch>>

\* a call of the constructor function of record Pair is evaluated
\* (Expr::StaticFunctionCall, then execute on FunctionInfo::RecordConstructor)
RecordConstructorCall(arg_exprs) ==
    /\ Running
    /\ \E arg_values \in {eval_args(arg_exprs, menv, "main")} :
          mresult' = IF arg_values.aborted THEN Panicked
                     ELSE ValueOf(call(CallableValue("pair", << >>, "site",
                                                     function_types("pair")),
                                       arg_values.values))
    /\ mcase' = [kind |-> "RecordConstructor", type_id |-> "Pair", args |-> arg_exprs]
    /\ matches' = << >>
    /\ msteps' = msteps + 1
    /\ UNCHANGED <<menv, notMatch>>

\* Expr::Do(exprs) is evaluated
Do(exprs) ==
    /\ Running
    /\ \E r \in {eval_do(exprs, menv)} :
          /\ mresult' = r.result
          /\ mcase' = [kind |-> "Do", exprs |-> exprs, trace |-> r.trace]
    /\ matches' = << >>
    /\ msteps' = msteps + 1
    /\ UNCHANGED <<menv, notMatch>>

NextEval ==
    \/ \E p \in BindingIds, v \in MatchValues : Bind(p, v)
    \/ \E type_id \in RecordIds : \E items \in ItemLists(type_id) :
          RecordInitialization(type_id, items)
    \/ \E record_expr_id \in {"val_x", "val_y"}, updates \in UpdateLists :
          RecordUpdate(record_expr_id, updates)
    \/ \E arg_exprs \in [1..2 -> ItemExprs] : RecordConstructorCall(arg_exprs)
    \/ \E exprs \in DoLists : Do(exprs)

\* ------------------------------------- Interpreter::call_class_member

ClassIds == {"Step", "Mark"}

\* program.class_members: the class, the name and the default implementation
ClassMembers(m) ==
    CASE m = "Step.next" -> [class_id |-> "Step", name |-> "next", default_implementation |-> ""]
      [] m = "Step.prev" -> [class_id |-> "Step", name |-> "prev", default_implementation |-> "prev_default"]
      [] m = "Mark.mark" -> [class_id |-> "Mark", name |-> "mark", default_implementation |-> "mark_default"]

ClassMemberIds == {"Step.next", "Step.prev", "Mark.mark"}

\* program.instances: the class and type an instance is for, and the
\* function of each member it implements ("" for a member it leaves out)
Instances(i) ==
    CASE i = "StepInt" -> [class_id |-> "Step", ty |-> IntTy,
                           members |-> [next |-> "next_int", prev |-> "prev_int", mark |-> ""]]
      [] i = "StepInt2" -> [class_id |-> "Step", ty |-> IntTy,
                            members |-> [next |-> "next_int2", prev |-> "", mark |-> ""]]
      [] i = "StepBool" -> [class_id |-> "Step", ty |-> BoolTy,
                            members |-> [next |-> "next_bool", prev |-> "", mark |-> ""]]
      [] i = "StepPair" -> [class_id |-> "Step", ty |-> NamedTy("Pair"),
                            members |-> [next |-> "", prev |-> "", mark |-> ""]]
      [] i = "MarkInt" -> [class_id |-> "Mark", ty |-> IntTy,
                           members |-> [next |-> "", prev |-> "", mark |-> ""]]

InstanceIds == {"StepInt", "StepInt2", "StepBool", "StepPair", "MarkInt"}

SelectorTypes == {IntTy, BoolTy, NamedTy("Pair")}

\* resolver.instance_map.get(class_id) and instances.get(ty)
class_instances(map, class_id) == {e \in map : e.class_id = class_id}
instance_for(map, class_id, ty) == {e \in map : e.class_id = class_id /\ e.ty = ty}

\* an add that leaves an entry already present for (class_id, ty) in place
TypeInstanceResolver_add_keeping(map, class_id, ty, instance_id) ==
    IF instance_for(map, class_id, ty) # {} THEN map
    ELSE map \cup {[class_id |-> class_id, ty |-> ty, instance_id |-> instance_id]}

\* TypeInstanceResolver::add: the entry of (class_id, ty) is replaced
TypeInstanceResolver_add(map, class_id, ty, instance_id) ==
    (map \ instance_for(map, class_id, ty))
        \cup {[class_id |-> class_id, ty |-> ty, instance_id |-> instance_id]}

\* the function call_class_member picks for `member` in `instance`: the
\* instance's own member of that name, else the default of the class member
member_function_id_default_first(instance, member) ==
    IF member.default_implementation # "" THEN member.default_implementation
    ELSE instance.members[member.name]
member_function_id(instance, member) ==
    IF instance.members[member.name] # "" THEN instance.members[member.name]
    ELSE member.default_implementation

NotDispatched == [callee |-> "", result |-> Aborted(<< >>)]

\* Interpreter::call_class_member, the instance selector and the concrete
\* function type being those of the call site
call_class_member(map, class_member_id, arg_values, instance_selector_ty, function_ty) ==
    LET member == ClassMembers(class_member_id)
        found == instance_for(map, member.class_id, instance_selector_ty)
    IN  IF class_instances(map, member.class_id) = {} THEN NotDispatched
        ELSE IF found = {} THEN NotDispatched
        ELSE LET instance == Instances((CHOOSE e \in found : TRUE).instance_id)
                 function_id == member_function_id(instance, member)
             IN  IF function_id = "" THEN NotDispatched
                 ELSE [callee |-> function_id,
                       result |-> call(CallableValue(function_id, << >>, "site",
                                                     function_ty),
                                       arg_values)]

\* the values of a selector type
ValuesOf(ty) ==
    {v \in MatchValues : v.ty = ty}

InitDispatch ==
    /\ instance_map = {}
    /\ dispatched = [kind |-> "None"]

\* an instance of the program is registered for its class and type
AddInstance(instance_id) ==
    /\ instance_map' = TypeInstanceResolver_add(instance_map, Instances(instance_id).class_id,
                                                Instances(instance_id).ty, instance_id)
    /\ dispatched' = [kind |-> "Add", class_id |-> Instances(instance_id).class_id,
                      ty |-> Instances(instance_id).ty, instance_id |-> instance_id,
                      before |-> instance_map]
    /\ UNCHANGED notDispatch

\* Expr::ClassFunctionCall(class_member_id, args), the arguments evaluated
ClassFunctionCall(class_member_id, arg_values, instance_selector_ty) ==
    /\ \E r \in {call_class_member(instance_map, class_member_id, arg_values,
                                    instance_selector_ty,
                                    FunctionTy(instance_selector_ty, instance_selector_ty))} :
           dispatched' = [kind |-> "ClassFunctionCall", member |-> class_member_id,
                          selector |-> instance_selector_ty, args |-> arg_values,
                          callee |-> r.callee, result |-> r.result.value,
                          log |-> r.result.log, aborted |-> r.result.aborted]
    /\ UNCHANGED <<instance_map, notDispatch>>

NextDispatch ==
    \/ \E i \in InstanceIds : AddInstance(i)
    \/ \E m \in ClassMemberIds, ty \in SelectorTypes :
          \E arg_values \in SeqsOf(ValuesOf(ty), 0, 1) : ClassFunctionCall(m, arg_values, ty)

\* ----------------------------------------------------- TypeStore

\* Type of the type checker: children are type variables of the store
TInt == [k |-> "Int"]
TBool == [k |-> "Bool"]
TypeArgument(arg, constraints) ==
    [k |-> "TypeArgument", arg |-> arg, constraints |-> constraints]
FixedTypeArgument(arg, name, constraints) ==
    [k |-> "FixedTypeArgument", arg |-> arg, name |-> name, constraints |-> constraints]
TTuple(items) == [k |-> "Tuple", items |-> items]
TFunction(from, to) == [k |-> "Function", from |-> from, to |-> to]
TNamed(name, id, items) == [k |-> "Named", name |-> name, id |-> id, items |-> items]

\* TypeStore::new
TypeStore_new ==
    [variables |-> << >>, indices |-> << >>,
     var_counter |-> 0, index_counter |-> 0, arg_counter |-> 0]

TypeVariables(st) == DOMAIN st.variables

\* TypeStore::add_type: a new variable at a new index holding ty
add_type(st, ty) ==
    [st EXCEPT !.variables = Append(st.variables, st.index_counter + 1),
               !.indices = Append(st.indices, ty),
               !.var_counter = st.var_counter + 1,
               !.index_counter = st.index_counter + 1]

\* the variable add_type hands out
added_var(st) == st.var_counter + 1

get_index(st, var) == st.variables[var]
get_type(st, var) == st.indices[get_index(st, var)]

\* TypeStore::merge: every variable at to's index moves to from's index
merge_nothing(st, from, to) == st
merge(st, from, to) ==
    [st EXCEPT !.variables =
        [v \in DOMAIN st.variables |->
            IF st.variables[v] = get_index(st, to) THEN get_index(st, from)
            ELSE st.variables[v]]]

\* TypeStore::has_class_instance
has_class_instance(st, var, class_id) == FALSE

Range(seq) == {seq[i] : i \in DOMAIN seq}

\* sort() then dedup() of a constraint list
RECURSIVE sort_dedup(_)
sort_dedup(constraints) ==
    IF constraints = << >> THEN << >>
    ELSE LET least == CHOOSE c \in Range(constraints) : \A d \in Range(constraints) : c <= d
         IN  <<least>> \o sort_dedup(SelectSeq(constraints, LAMBDA c : c # least))

\* the constraints of the variable two unified type arguments are merged into
merged_constraints_unsorted(primary_constraints, secondary_constraints) ==
    primary_constraints \o secondary_constraints
merged_constraints(primary_constraints, secondary_constraints) ==
    sort_dedup(primary_constraints \o secondary_constraints)

\* the check of a type argument's constraints against a fixed argument's
fixed_accepts_any(constraints, fixed_constraints) == TRUE
fixed_accepts(constraints, fixed_constraints) ==
    \A i \in DOMAIN constraints : constraints[i] \in Range(fixed_constraints)

Unified(ok, st) == [ok |-> ok, store |-> st, overflow |-> FALSE]

\* unify called again, below itself, on the same two variables in the same
\* store: the recursion does not end and the checker runs out of stack
Overflowed(st) == [ok |-> FALSE, store |-> st, overflow |-> TRUE]

RECURSIVE unify_below(_, _, _, _)
RECURSIVE unify_all(_, _, _, _, _)

\* the loop over the zipped children of two Tuple or two Named types
unify_all(st, type_vars1, type_vars2, i, callers) ==
    IF i > Len(type_vars1) THEN Unified(TRUE, st)
    ELSE LET r == unify_below(st, type_vars1[i], type_vars2[i], callers)
         IN  IF ~r.ok THEN r
             ELSE unify_all(r.store, type_vars1, type_vars2, i + 1, callers)

\* TypeStore::unify, `callers` being the calls of unify it is nested in
unify_below(st, primary, secondary, callers) ==
    LET primary_type == get_type(st, primary)
        secondary_type == get_type(st, secondary)
        k1 == primary_type.k
        k2 == secondary_type.k
        this == <<st, primary, secondary>>
        below == callers \cup {this}
    IN  IF this \in callers THEN Overflowed(st)
        ELSE IF get_index(st, primary) = get_index(st, secondary) THEN Unified(TRUE, st)
        ELSE IF k1 = k2 /\ k1 \in {"Int", "String", "Bool"} THEN Unified(TRUE, st)
        ELSE IF k1 = "TypeArgument" /\ k2 = "TypeArgument" THEN
            LET merged_type ==
                    TypeArgument(st.arg_counter,
                                 merged_constraints(primary_type.constraints,
                                                    secondary_type.constraints))
                st1 == add_type([st EXCEPT !.arg_counter = st.arg_counter + 1], merged_type)
                merged_type_var == added_var(st)
            IN  Unified(TRUE, merge(merge(st1, merged_type_var, primary),
                                    merged_type_var, secondary))
        ELSE IF k1 = "TypeArgument" /\ k2 = "FixedTypeArgument" THEN
            IF fixed_accepts(primary_type.constraints, secondary_type.constraints)
            THEN Unified(TRUE, merge(st, secondary, primary))
            ELSE Unified(FALSE, st)
        ELSE IF k1 = "FixedTypeArgument" /\ k2 = "TypeArgument" THEN
            IF fixed_accepts(secondary_type.constraints, primary_type.constraints)
            THEN Unified(TRUE, merge(st, primary, secondary))
            ELSE Unified(FALSE, st)
        ELSE IF k1 = "TypeArgument" THEN
            IF \A i \in DOMAIN primary_type.constraints :
                   has_class_instance(st, secondary, primary_type.constraints[i])
            THEN Unified(TRUE, merge(st, secondary, primary))
            ELSE Unified(FALSE, st)
        ELSE IF k2 = "TypeArgument" THEN
            IF \A i \in DOMAIN secondary_type.constraints :
                   has_class_instance(st, primary, secondary_type.constraints[i])
            THEN Unified(TRUE, merge(st, primary, secondary))
            ELSE Unified(FALSE, st)
        ELSE IF k1 = "Tuple" /\ k2 = "Tuple" THEN
            IF Len(primary_type.items) # Len(secondary_type.items) THEN Unified(FALSE, st)
            ELSE unify_all(st, primary_type.items, secondary_type.items, 1, below)
        ELSE IF k1 = "Function" /\ k2 = "Function" THEN
            LET r == unify_below(st, primary_type.from, secondary_type.from, below)
            IN  IF ~r.ok THEN r
                ELSE unify_below(r.store, primary_type.to, secondary_type.to, below)
        ELSE IF k1 = "Named" /\ k2 = "Named" THEN
            IF primary_type.id # secondary_type.id THEN Unified(FALSE, st)
            ELSE IF Len(primary_type.items) # Len(secondary_type.items)
            THEN Unified(FALSE, st)
            ELSE unify_all(st, primary_type.items, secondary_type.items, 1, below)
        ELSE Unified(FALSE, st)

\* TypeStore::unify
unify(st, primary, secondary) == unify_below(st, primary, secondary, {})

\* the type variables a type holds
children(ty) ==
    CASE ty.k \in {"Tuple", "Named"} -> ty.items
      [] ty.k = "Function" -> <<ty.from, ty.to>>
      [] OTHER -> << >>

\* Type::check_recursion: a child is one of the variables on the path, or
\* the type of a child is recursive with the child added to the path
\* (the walk ends: the path grows by a variable at every step)
RECURSIVE check_recursion(_, _, _)
check_recursion(st, ty, path) ==
    \E i \in DOMAIN children(ty) :
        LET child == children(ty)[i]
        IN  \/ child \in path
            \/ check_recursion(st, get_type(st, child), path \cup {child})

\* TypeStore::is_recursive
is_recursive(st, var) == check_recursion(st, get_type(st, var), {var})

\* ------------------------------------------ the type store subsystem

ClassConstraints == {<< >>, <<1>>, <<2>>}
FixedConstraints == {<< >>, <<1>>}

\* the types the checker adds over the variables the store has
NewTypes(st) ==
    {TInt, TBool}
    \cup {TypeArgument(st.arg_counter, c) : c \in ClassConstraints}
    \cup {FixedTypeArgument(st.arg_counter, "a", d) : d \in FixedConstraints}
    \cup {TTuple(<<v>>) : v \in TypeVariables(st)}
    \cup {TNamed("Option", "Option", <<v>>) : v \in TypeVariables(st)}
    \cup {TFunction(v, w) : v, w \in TypeVariables(st)}

NoUnify == [kind |-> "None", n |-> 0]

InitStore ==
    /\ store = TypeStore_new
    /\ last = NoUnify

\* a type is added: type arguments take a fresh argument index
\* (get_new_type_var, get_unique_type_arg), the others none
AddType(ty) ==
    /\ store.var_counter < MaxVars
    /\ last.kind # "Overflow"
    /\ store' = add_type(IF ty.k \in {"TypeArgument", "FixedTypeArgument"}
                         THEN [store EXCEPT !.arg_counter = store.arg_counter + 1]
                         ELSE store, ty)
    /\ last' = [last EXCEPT !.kind = "None"]
    /\ UNCHANGED notStore

\* unify(primary, secondary) on two variables of the store
Unify(primary, secondary) ==
    /\ last.n < MaxUnify
    /\ last.kind # "Overflow"
    /\ \E r \in {unify(store, primary, secondary)} :
           /\ store' = r.store
           /\ last' = [kind |-> IF r.overflow THEN "Overflow" ELSE "Unify",
                       n |-> last.n + 1, primary |-> primary,
                       secondary |-> secondary, before |-> store, ok |-> r.ok]
    /\ UNCHANGED notStore

NextStore ==
    \/ \E ty \in NewTypes(store) : AddType(ty)
    \/ \E primary, secondary \in TypeVariables(store) : Unify(primary, secondary)

\* ---------------------------------------------- InstanceResolver

\* the schematic types instance heads are written in
Var(index, constraints) == [k |-> "Var", index |-> index, constraints |-> constraints]
Named(name, args) == [k |-> "Named", name |-> name, args |-> args]

\* Type::get_base_type: the outer constructor, Generic for a variable
get_base_type(ty) == IF ty.k = "Var" THEN "Generic" ELSE ty.name

BaseTypes == {"Generic", "Int", "Bool", "Option"}

\* the heads of the instances the program declares; a head has at most one
\* variable, so unifying two heads needs no substitution to be carried
HeadTypes ==
    {Var(0, << >>), Named("Int", << >>), Named("Bool", << >>),
     Named("Option", <<Var(0, << >>)>>), Named("Option", <<Named("Int", << >>)>>)}

\* Unifier::unify(first, second).is_ok() on two heads
RECURSIVE heads_unify(_, _)
heads_unify(first, second) ==
    IF first.k = "Var" \/ second.k = "Var" THEN TRUE
    ELSE /\ first.name = second.name
         /\ Len(first.args) = Len(second.args)
         /\ \A i \in DOMAIN first.args : heads_unify(first.args[i], second.args[i])

UserDefined(ty, instance_id, location_id) ==
    [kind |-> "UserDefined", ty |-> ty, instance_id |-> instance_id,
     location_id |-> location_id]
AutoDerived(index) == [kind |-> "AutoDerived", index |-> index]

\* InstanceResolver::new; a bucket that was never pushed to is empty
InstanceResolver_new ==
    [instance_map |-> [c \in ClassIds |-> [b \in BaseTypes |-> << >>]],
     auto_derived_instances |-> << >>]

\* InstanceInfo::get_type and InstanceInfo::get_location
InstanceInfo_get_type(r, info) ==
    IF info.kind = "UserDefined" THEN info.ty
    ELSE r.auto_derived_instances[info.index + 1].ty
InstanceInfo_get_location(r, info) ==
    IF info.kind = "UserDefined" THEN info.location_id
    ELSE r.auto_derived_instances[info.index + 1].location

\* InstanceResolver::add_user_defined
add_user_defined(r, class_id, instance_ty, instance_id, location_id) ==
    [r EXCEPT !.instance_map[class_id][get_base_type(instance_ty)] =
        Append(@, UserDefined(instance_ty, instance_id, location_id))]

\* InstanceResolver::add_auto_derived
add_auto_derived(r, class_id, instance_ty, location_id) ==
    [r EXCEPT !.auto_derived_instances =
                  Append(@, [ty |-> instance_ty, location |-> location_id]),
              !.instance_map[class_id][get_base_type(instance_ty)] =
                  Append(@, AutoDerived(Len(r.auto_derived_instances)))]

ConflictingInstances(class_name, first_location, second_location) ==
    [kind |-> "ConflictingInstances", class |-> class_name,
     first |-> first_location, second |-> second_location]

\* the errors check_conflicts pushes for one class
class_conflicts(r, class_id) ==
    LET buckets == r.instance_map[class_id]
        generic_instances == buckets["Generic"]
    IN  IF generic_instances # << >>
        THEN LET generic_location == InstanceInfo_get_location(r, generic_instances[1])
             IN  {ConflictingInstances(class_id, generic_location,
                                       InstanceInfo_get_location(r, buckets[b][i])) :
                    <<b, i>> \in {<<b, i>> \in BaseTypes \X (1..MaxInstances + 1) :
                                    /\ i <= Len(buckets[b])
                                    /\ InstanceInfo_get_location(r, buckets[b][i])
                                           # generic_location}}
        ELSE {ConflictingInstances(class_id,
                                   InstanceInfo_get_location(r, buckets[t[1]][t[2]]),
                                   InstanceInfo_get_location(r, buckets[t[1]][t[3]])) :
                t \in {t \in BaseTypes \X (1..MaxInstances + 1) \X (1..MaxInstances + 1) :
                          /\ t[2] < t[3]
                          /\ t[3] <= Len(buckets[t[1]])
                          /\ heads_unify(
                                InstanceInfo_get_type(r, buckets[t[1]][t[2]]),
                                InstanceInfo_get_type(r, buckets[t[1]][t[3]]))}}

\* InstanceResolver::check_conflicts: the errors pushed, as a set (they are
\* pushed in the key order of the two maps)
check_conflicts(r) == UNION {class_conflicts(r, class_id) : class_id \in ClassIds}

\* the instances registered so far, of every class
RegisteredCount(r) ==
    LET counts == [c \in ClassIds |->
                      Len(r.instance_map[c]["Generic"]) + Len(r.instance_map[c]["Int"])
                      + Len(r.instance_map[c]["Bool"]) + Len(r.instance_map[c]["Option"])]
    IN  counts["Step"] + counts["Mark"]

InitResolver ==
    /\ resolver = InstanceResolver_new
    /\ errors = {}
    /\ checked = FALSE

\* an instance declaration is registered, at the next source location
AddUserDefined(class_id, instance_ty) ==
    /\ ~checked
    /\ RegisteredCount(resolver) < MaxInstances
    /\ resolver' = add_user_defined(resolver, class_id, instance_ty,
                                    RegisteredCount(resolver), RegisteredCount(resolver) + 1)
    /\ UNCHANGED <<errors, checked, notResolver>>

\* a derived instance is registered, at the next source location
AddAutoDerived(class_id, instance_ty) ==
    /\ ~checked
    /\ RegisteredCount(resolver) < MaxInstances
    /\ instance_ty.k # "Var"
    /\ resolver' = add_auto_derived(resolver, class_id, instance_ty,
                                    RegisteredCount(resolver) + 1)
    /\ UNCHANGED <<errors, checked, notResolver>>

\* check_conflicts runs once the instances are registered
CheckConflicts ==
    /\ ~checked
    /\ errors' = errors \cup check_conflicts(resolver)
    /\ checked' = TRUE
    /\ UNCHANGED <<resolver, notResolver>>

NextResolver ==
    \/ \E c \in ClassIds, ty \in HeadTypes : AddUserDefined(c, ty)
    \/ \E c \in ClassIds, ty \in HeadTypes : AddAutoDerived(c, ty)
    \/ CheckConflicts

\* ------------------------------- InstanceResolver: instance resolution

\* the class ids in their sort order
ClassOrder == <<"Mark", "Step">>

\* the type variable generator hands out indices above those of the
\* variables of the instance heads and of the types checked
FirstFreshIndex == 6

\* the instance declarations of the program: the class, the head and whether
\* the instance is derived.  A constraint of the instance is carried by the
\* head's variable: StepOption is Step (Option a) given Mark a and MarkOption
\* is Mark (Option a) given Step a, so these two depend on each other
Declarations(d) ==
    CASE d = "StepInt" -> [class_id |-> "Step", ty |-> Named("Int", << >>), derived |-> FALSE]
      [] d = "MarkInt" -> [class_id |-> "Mark", ty |-> Named("Int", << >>), derived |-> TRUE]
      [] d = "StepOption" ->
            [class_id |-> "Step", ty |-> Named("Option", <<Var(1, <<"Mark">>)>>), derived |-> FALSE]
      [] d = "MarkOption" ->
            [class_id |-> "Mark", ty |-> Named("Option", <<Var(2, <<"Step">>)>>), derived |-> FALSE]
      [] d = "StepNested" ->
            [class_id |-> "Step",
             ty |-> Named("Option", <<Named("Option", <<Var(3, <<"Step">>)>>)>>),
             derived |-> FALSE]
      [] d = "MarkNested" ->
            [class_id |-> "Mark",
             ty |-> Named("Option", <<Named("Option", <<Var(4, <<"Mark">>)>>)>>),
             derived |-> FALSE]

DeclarationIds == {"StepInt", "MarkInt", "StepOption", "MarkOption", "StepNested", "MarkNested"}

\* the types check_instance is asked about
CheckedTypes ==
    {Named("Int", << >>), Named("Bool", << >>),
     Named("Option", <<Named("Int", << >>)>>),
     Named("Option", <<Named("Option", <<Named("Int", << >>)>>)>>),
     Var(5, << >>), Var(5, <<"Step">>),
     Named("Option", <<Var(5, << >>)>>), Named("Option", <<Var(5, <<"Mark">>)>>)}

\* Type::is_concrete_type: no variable anywhere in the type
RECURSIVE is_concrete_type(_)
is_concrete_type(ty) ==
    /\ ty.k # "Var"
    /\ \A i \in DOMAIN ty.args : is_concrete_type(ty.args[i])

\* the variable occurs in the type
RECURSIVE occurs(_, _)
occurs(index, ty) ==
    IF ty.k = "Var" THEN ty.index = index
    ELSE \E i \in DOMAIN ty.args : occurs(index, ty.args[i])

\* Substitution::apply; var_map is a set of <<index, type>> bindings
RECURSIVE apply(_, _)
apply(var_map, ty) ==
    IF ty.k = "Var"
    THEN IF \E b \in var_map : b[1] = ty.index
         THEN apply(var_map, (CHOOSE b \in var_map : b[1] = ty.index)[2])
         ELSE ty
    ELSE Named(ty.name, [i \in DOMAIN ty.args |-> apply(var_map, ty.args[i])])

\* the constraints of two variables, merged, sorted and deduplicated
merged_classes(constraints1, constraints2) ==
    SelectSeq(ClassOrder, LAMBDA c : c \in Range(constraints1) \cup Range(constraints2))

\* Unifier::new
Unifier_new ==
    [ok |-> TRUE, var_map |-> {}, constraints |-> << >>, next_index |-> FirstFreshIndex + 1]

\* a variable is bound to a type that is not a variable: the occurs check,
\* then one deferred constraint for every class the variable carries
Unifier_bind(u, var, ty) ==
    IF occurs(var.index, ty) THEN [u EXCEPT !.ok = FALSE]
    ELSE [u EXCEPT !.var_map = @ \cup {<<var.index, ty>>},
                   !.constraints = @ \o [i \in DOMAIN var.constraints |->
                                            [class_id |-> var.constraints[i], ty |-> ty]]]

\* Unifier::unify
RECURSIVE Unifier_unify(_, _, _)
RECURSIVE Unifier_unify_items(_, _, _, _)
Unifier_unify(u, type1, type2) ==
    IF ~u.ok THEN u
    ELSE Only({
        IF p[1].k = "Var" /\ p[2].k = "Var"
        THEN IF p[1].index = p[2].index THEN u
             ELSE LET fresh == Var(u.next_index,
                                   merged_classes(p[1].constraints, p[2].constraints))
                  IN  [u EXCEPT !.var_map = @ \cup {<<p[1].index, fresh>>, <<p[2].index, fresh>>},
                                !.next_index = @ + 1]
        ELSE IF p[1].k = "Var" THEN Unifier_bind(u, p[1], p[2])
        ELSE IF p[2].k = "Var" THEN Unifier_bind(u, p[2], p[1])
        ELSE IF p[1].name = p[2].name /\ Len(p[1].args) = Len(p[2].args)
             THEN Unifier_unify_items(u, p[1].args, p[2].args, 1)
             ELSE [u EXCEPT !.ok = FALSE]
        : p \in {<<apply(u.var_map, type1), apply(u.var_map, type2)>>}})
Unifier_unify_items(u, items1, items2, i) ==
    IF i > Len(items1) THEN u
    ELSE Only({Unifier_unify_items(next, items1, items2, i + 1) :
                 next \in {Unifier_unify(u, items1[i], items2[i])}})

\* Substitution::get_constraints: the deferred constraints, the substitution
\* applied to their types
get_constraints(u) ==
    [i \in DOMAIN u.constraints |->
        [class_id |-> u.constraints[i].class_id,
         ty |-> apply(u.var_map, u.constraints[i].ty)]]

\* ResolutionResult
ResolutionResult(info) ==
    IF info.kind = "AutoDerived" THEN [kind |-> "AutoDerived"]
    ELSE [kind |-> "UserDefined", instance_id |-> info.instance_id]

\* InstanceResolutionCache::add
InstanceResolutionCache_add(c, class_id, ty, result) ==
    {e \in c : ~(e.class_id = class_id /\ e.ty = ty)}
        \cup {[class_id |-> class_id, ty |-> ty, result |-> result]}

\* has_instance, from the i-th instance of the bucket on, taking the last
\* instance that unifies instead of the first
RECURSIVE has_instance_last(_, _, _, _, _)
has_instance_last(r, c, ty, class_id, i) ==
    LET instances == r.instance_map[class_id][get_base_type(ty)]
        none == [found |-> FALSE, index |-> 0, unifier |-> Unifier_new, cache |-> c]
    IN  IF i > Len(instances) THEN none
        ELSE Only({
            IF later.found \/ ~unifier.ok THEN later
            ELSE [found |-> TRUE, index |-> i, unifier |-> unifier,
                  cache |-> IF is_concrete_type(ty)
                            THEN InstanceResolutionCache_add(c, class_id, ty,
                                                             ResolutionResult(instances[i]))
                            ELSE c]
            : <<unifier, later>> \in
                {<<Unifier_unify(Unifier_new, ty, InstanceInfo_get_type(r, instances[i])),
                   has_instance_last(r, c, ty, class_id, i + 1)>>}})

\* InstanceResolver::has_instance, from the i-th instance of the bucket on
RECURSIVE has_instance_from(_, _, _, _, _)
has_instance_from(r, c, ty, class_id, i) ==
    LET instances == r.instance_map[class_id][get_base_type(ty)]
    IN  IF i > Len(instances)
        THEN [found |-> FALSE, index |-> 0, unifier |-> Unifier_new, cache |-> c]
        ELSE Only({
            IF unifier.ok
            THEN [found |-> TRUE, index |-> i, unifier |-> unifier,
                  cache |-> IF is_concrete_type(ty)
                            THEN InstanceResolutionCache_add(c, class_id, ty,
                                                             ResolutionResult(instances[i]))
                            ELSE c]
            ELSE has_instance_from(r, c, ty, class_id, i + 1)
            : unifier \in {Unifier_unify(Unifier_new, ty,
                                         InstanceInfo_get_type(r, instances[i]))}})

\* InstanceResolver::has_instance
has_instance(r, c, ty, class_id) == has_instance_from(r, c, ty, class_id, 1)

\* InstanceResolver::check_instance.  acc carries the cache, the unifiers
\* pushed and the number of has_instance calls; callers are the (class, type)
\* pairs of the check_instance calls not yet returned.  The recursion depends
\* on the class, the type and the instances only, so a call that repeats one
\* of its callers never returns: the stack overflows
RECURSIVE check_instance_below(_, _, _, _, _)
RECURSIVE check_constraints(_, _, _, _, _)
check_instance_below(r, acc, class_id, ty, callers) ==
    IF ty.k = "Var"
    THEN IF class_id \in Range(ty.constraints) THEN [acc EXCEPT !.outcome = "true"]
         ELSE [acc EXCEPT
                 !.outcome = "true",
                 !.unifiers = Append(@, Unifier_unify(Unifier_new,
                                  Var(FirstFreshIndex, Append(ty.constraints, class_id)), ty))]
    ELSE IF <<class_id, ty>> \in callers THEN [acc EXCEPT !.outcome = "overflow"]
    ELSE Only({
        IF h.found
        THEN check_constraints(r, [acc EXCEPT !.cache = h.cache, !.lookups = @ + 1],
                               get_constraints(h.unifier), 1,
                               callers \cup {<<class_id, ty>>})
        ELSE [acc EXCEPT !.outcome = "false", !.lookups = @ + 1]
        : h \in {has_instance(r, acc.cache, ty, class_id)}})
check_constraints(r, acc, constraints, i, callers) ==
    IF i > Len(constraints) THEN [acc EXCEPT !.outcome = "true"]
    ELSE IF get_base_type(constraints[i].ty) = "Generic"
    THEN [acc EXCEPT !.outcome = "unimplemented"]
    ELSE Only({
        IF a.outcome = "true" THEN check_constraints(r, a, constraints, i + 1, callers)
        ELSE a
        : a \in {check_instance_below(r, acc, constraints[i].class_id,
                                      constraints[i].ty, callers)}})

check_instance(r, c, class_id, ty) ==
    check_instance_below(r, [outcome |-> "", cache |-> c, unifiers |-> << >>, lookups |-> 0],
                         class_id, ty, {})

InitQuery ==
    /\ cache = {}
    /\ asked = << >>

\* an instance declaration of the program is registered, at the next source
\* location, before anything is checked
RegisterInstance(d) ==
    /\ asked = << >>
    /\ ~checked
    /\ RegisteredCount(resolver) < MaxInstances
    /\ resolver' =
          IF Declarations(d).derived
          THEN add_auto_derived(resolver, Declarations(d).class_id, Declarations(d).ty,
                                RegisteredCount(resolver) + 1)
          ELSE add_user_defined(resolver, Declarations(d).class_id, Declarations(d).ty,
                                d, RegisteredCount(resolver) + 1)
    /\ UNCHANGED <<cache, asked, notQuery>>

\* the instance the first has_instance call of check_instance(class_id, ty)
\* settles on: its position in the bucket, 0 for none or for a variable
FirstLookup(class_id, ty) ==
    IF ty.k = "Var" THEN 0 ELSE has_instance(resolver, cache, ty, class_id).index

\* check_instance(class_id, ty, location, unifiers) is called; a call that
\* overflowed the stack or hit unimplemented!() ended the process
CheckInstance(class_id, ty) ==
    /\ Len(asked) < MaxQueries
    /\ \A i \in DOMAIN asked : asked[i].outcome \in {"true", "false"}
    /\ \E a \in {check_instance(resolver, cache, class_id, ty)} :
          /\ cache' = a.cache
          /\ asked' = Append(asked,
                [class_id |-> class_id, ty |-> ty, outcome |-> a.outcome,
                 unifiers |-> a.unifiers, lookups |-> a.lookups,
                 index |-> FirstLookup(class_id, ty), before |-> cache, after |-> a.cache])
    /\ UNCHANGED <<resolver, notQuery>>

NextInstances ==
    \/ \E d \in DeclarationIds : RegisterInstance(d)
    \/ \E c \in ClassIds, ty \in CheckedTypes : CheckInstance(c, ty)

\* ----------------------------------- the INTERPRETER_CONTEXT slot

\* Interpreter::new: no extern function, no typedef id cache
Interpreter_new(id) == [id |-> id, extern_functions |-> FALSE, typedefid_cache |-> FALSE]

\* the register_extern_functions calls of run
register_extern_functions(interpreter) == [interpreter EXCEPT !.extern_functions = TRUE]

\* Interpreter::build_typedefid_cache, and a run that leaves it out
skip_typedefid_cache(interpreter) == interpreter
build_typedefid_cache(interpreter) == [interpreter EXCEPT !.typedefid_cache = TRUE]

NoInterpreter == [id |-> 0]

\* the functions that read the slot: the class dispatch entries, which keep
\* their borrow while the member runs, and the getters, which return at once
DispatchOps == {"call_show", "call_op_eq", "call_op_partial_cmp", "call_op_cmp"}
GetterOps ==
    {"get_typedef_id_cache", "get_string_concrete_type", "get_bool_concrete_type",
     "get_ordering_concrete_type", "get_optional_ordering_concrete_type"}

RunFrame(pc, interpreter) == [fn |-> "run", pc |-> pc, interpreter |-> interpreter]
DispatchFrame(op, id) == [fn |-> "dispatch", pc |-> "member", op |-> op, found |-> id]

\* the innermost call is evaluating siko code (or nothing is running), so a
\* function of the interpreter can be called from there
Evaluating ==
    IF stack = << >> THEN TRUE ELSE stack[Len(stack)].pc \in {"main", "member"}

\* the panic a read of the slot ends in, "" when it finds what it wants
read_panic(op) ==
    IF slot = NoInterpreter THEN "Interpreter not set"
    ELSE IF op = "get_typedef_id_cache" /\ ~slot.typedefid_cache THEN "TypedefId cache not set"
    ELSE ""

InitSlot ==
    /\ slot = NoInterpreter
    /\ borrows = 0
    /\ stack = << >>
    /\ runs = 0
    /\ slot_log = [kind |-> "None"]
    /\ crashed = ""

\* Interpreter::run is called: Interpreter::new
RunCall ==
    /\ crashed = ""
    /\ Evaluating
    /\ runs < MaxRuns
    /\ Len(stack) < MaxNesting
    /\ runs' = runs + 1
    /\ stack' = Append(stack, RunFrame("new", Interpreter_new(runs + 1)))
    /\ UNCHANGED <<slot, borrows, slot_log, crashed, notSlot>>

\* run: the extern functions are registered
RunRegister ==
    /\ crashed = ""
    /\ stack # << >>
    /\ stack[Len(stack)].pc = "new"
    /\ stack' = [stack EXCEPT ![Len(stack)] =
                     RunFrame("registered", register_extern_functions(@.interpreter))]
    /\ UNCHANGED <<slot, borrows, runs, slot_log, crashed, notSlot>>

\* run: build_typedefid_cache
RunBuildCache ==
    /\ crashed = ""
    /\ stack # << >>
    /\ stack[Len(stack)].pc = "registered"
    /\ stack' = [stack EXCEPT ![Len(stack)] =
                     RunFrame("cached", build_typedefid_cache(@.interpreter))]
    /\ UNCHANGED <<slot, borrows, runs, slot_log, crashed, notSlot>>

\* run: the interpreter is moved into the slot under borrow_mut, which
\* panics while a borrow is alive; the mutable borrow ends with the closure
RunPublish ==
    /\ crashed = ""
    /\ stack # << >>
    /\ stack[Len(stack)].pc = "cached"
    /\ IF borrows > 0
       THEN /\ crashed' = "already borrowed"
            /\ UNCHANGED <<slot, stack>>
       ELSE /\ slot' = stack[Len(stack)].interpreter
            /\ stack' = [stack EXCEPT ![Len(stack)] = RunFrame("published", @.interpreter)]
            /\ UNCHANGED crashed
    /\ UNCHANGED <<borrows, runs, slot_log, notSlot>>

\* run: the slot is borrowed and execute_main starts on what it holds
RunExecuteMain ==
    /\ crashed = ""
    /\ stack # << >>
    /\ stack[Len(stack)].pc = "published"
    /\ IF read_panic("run") # ""
       THEN /\ crashed' = read_panic("run")
            /\ UNCHANGED <<borrows, stack>>
       ELSE /\ borrows' = borrows + 1
            /\ stack' = [stack EXCEPT ![Len(stack)] = RunFrame("main", slot)]
            /\ UNCHANGED crashed
    /\ UNCHANGED <<slot, runs, slot_log, notSlot>>

\* run: execute_main has returned the value of main, the borrow ends
RunReturn ==
    /\ crashed = ""
    /\ stack # << >>
    /\ stack[Len(stack)].pc = "main"
    /\ stack' = SubSeq(stack, 1, Len(stack) - 1)
    /\ borrows' = borrows - 1
    /\ slot_log' = [kind |-> "Returned", id |-> stack[Len(stack)].interpreter.id]
    /\ UNCHANGED <<slot, runs, crashed, notSlot>>

\* call_show, call_op_eq, call_op_partial_cmp or call_op_cmp is called: the
\* getter of the result type, then call_specific_class_member borrows the
\* slot and calls the class member on the interpreter it holds
Dispatch(op) ==
    /\ crashed = ""
    /\ Evaluating
    /\ Len(stack) < MaxNesting
    /\ IF read_panic(op) # ""
       THEN /\ crashed' = read_panic(op)
            /\ UNCHANGED <<borrows, stack>>
       ELSE /\ borrows' = borrows + 1
            /\ stack' = Append(stack, DispatchFrame(op, slot.id))
            /\ UNCHANGED crashed
    /\ slot_log' = [kind |-> "Read", op |-> op, found |-> slot.id, runs |-> runs,
                    during |-> stack # << >>]
    /\ UNCHANGED <<slot, runs, notSlot>>

\* the class member has returned: the borrow of call_specific_class_member ends
DispatchReturn ==
    /\ crashed = ""
    /\ stack # << >>
    /\ stack[Len(stack)].pc = "member"
    /\ stack' = SubSeq(stack, 1, Len(stack) - 1)
    /\ borrows' = borrows - 1
    /\ UNCHANGED <<slot, runs, slot_log, crashed, notSlot>>

\* get_typedef_id_cache or one of the concrete type getters is called
Getter(op) ==
    /\ crashed = ""
    /\ Evaluating
    /\ crashed' = read_panic(op)
    /\ slot_log' = [kind |-> "Read", op |-> op, found |-> slot.id, runs |-> runs,
                    during |-> stack # << >>]
    /\ UNCHANGED <<slot, borrows, stack, runs, notSlot>>

NextSlot ==
    \/ RunCall
    \/ RunRegister
    \/ RunBuildCache
    \/ RunPublish
    \/ RunExecuteMain
    \/ RunReturn
    \/ \E op \in DispatchOps : Dispatch(op)
    \/ DispatchReturn
    \/ \E op \in GetterOps : Getter(op)

\* ------------------------------------------------ the call subsystem

ArgValues == {IntValue(v, IntTy) : v \in 1..MaxArg}

CallRecord(callable, args, r) ==
    [callable |-> callable, args |-> args, result |-> r.value, log |-> r.log,
     aborted |-> r.aborted]

InitCall ==
    /\ origin = ""
    /\ held = NoValue
    /\ calls = << >>

\* the environment of the body of main, before its first expression
InitMatch ==
    /\ menv = Environment_new("main", << >>, 0)
    /\ matches = << >>
    /\ mresult = [kind |-> "None"]
    /\ msteps = 0
    /\ mcase = [kind |-> "None"]

\* ------------------------------------------------- Resolver::resolve

\* the class the instances of the program implement: its members by name,
\* each with whether it has a default implementation
ShapeMembers == [area |-> FALSE, scale |-> FALSE, name |-> TRUE]
ShapeMemberNames == DOMAIN ShapeMembers

\* the names of the functions an instance declaration can implement
MemberNames == {"area", "scale", "name", "other"}

\* an instance declaration: the class it names, whether its type signature
\* resolves, and the names of the functions it implements, in order
AstInstance(class_name, bad_signature, members) ==
    [class_name |-> class_name, bad_signature |-> bad_signature, members |-> members]

AstInstances ==
    {AstInstance(c, b, m) : c \in {"Shape", "Nope"}, b \in BOOLEAN,
                            m \in SeqsOf(MemberNames, 0, MaxMembers)}

\* a ResolverError: its kind, the name it is about, and its location (the
\* position of the implementing function, 0 for the instance itself)
ResolverError(kind, name, at) == [kind |-> kind, name |-> name, at |-> at]

\* Resolver::lookup_class: the class id, or NotAClassName
lookup_class(class_name) ==
    IF class_name = "Shape" THEN [found |-> TRUE, errors |-> << >>]
    ELSE [found |-> FALSE, errors |-> <<ResolverError("NotAClassName", class_name, 0)>>]

\* process_type_signatures on the instance's type signature
process_type_signatures(instance) ==
    IF instance.bad_signature
    THEN <<ResolverError("UnknownTypeName", instance.class_name, 0)>>
    ELSE << >>

\* the loop of process_instance over instance.members from position k on
RECURSIVE member_errors(_, _, _)
member_errors(members, k, implemented_members) ==
    IF k > Len(members) THEN << >>
    ELSE (IF members[k] \in ShapeMemberNames THEN << >>
          ELSE <<ResolverError("NotAClassMember", members[k], k)>>)
         \o (IF members[k] \in implemented_members
             THEN <<ResolverError("ClassMemberImplementedMultipleTimes", members[k], k)>>
             ELSE << >>)
         \o member_errors(members, k + 1, implemented_members \cup {members[k]})

\* the loop of process_instance over class_members (a BTreeMap: by name)
RECURSIVE missing_errors(_, _)
missing_errors(names, implemented_members) ==
    IF names = << >> THEN << >>
    ELSE (IF ~ShapeMembers[Head(names)] /\ Head(names) \notin implemented_members
          THEN <<ResolverError("MissingClassMemberInInstance", Head(names), 0)>>
          ELSE << >>)
         \o missing_errors(Tail(names), implemented_members)

\* the member checks of process_instance, made whatever errors holds
instance_checks(instance) ==
    member_errors(instance.members, 1, {})
    \o missing_errors(<<"area", "name", "scale">>,
                      {instance.members[k] : k \in 1..Len(instance.members)})

\* the member checks of process_instance: made only if errors is empty
guarded_checks(instance, errs) ==
    IF errs = << >> THEN instance_checks(instance) ELSE << >>

\* Resolver::process_instance: errors after the call
process_instance(instance, errs) ==
    IF ~lookup_class(instance.class_name).found
    THEN errs \o lookup_class(instance.class_name).errors
    ELSE Only({after \o guarded_checks(instance, after)
               : after \in {errs \o process_type_signatures(instance)}})

\* the passes of resolve that come before the instances; each returns Err
\* when it leaves an error
EarlyPasses == {"module conflicts", "items and types", "exports", "imports", "adts, records, classes"}

Ok == [kind |-> "Ok"]
Err(errs) == [kind |-> "Err", errors |-> errs]

InitResolve ==
    /\ resolve_pc = "idle"
    /\ resolve_errors = << >>
    /\ resolve_log = << >>
    /\ resolve_result = [kind |-> "None"]

\* resolve is called and runs its passes up to the classes; failed names
\* the first of them that left an error ("" if none did)
ResolveStart(failed) ==
    /\ resolve_pc = "idle"
    /\ IF failed = ""
       THEN /\ resolve_pc' = "instances"
            /\ UNCHANGED <<resolve_errors, resolve_result>>
       ELSE /\ resolve_pc' = "done"
            /\ resolve_errors' = <<ResolverError(failed, "", 0)>>
            /\ resolve_result' = Err(<<ResolverError(failed, "", 0)>>)
    /\ UNCHANGED <<resolve_log, notResolve>>

InstancesDone == Cardinality({k \in 1..Len(resolve_log) : resolve_log[k].kind = "instance"})
BodiesDone == Cardinality({k \in 1..Len(resolve_log) : resolve_log[k].kind = "function"})

\* the instance loop of resolve reaches the next instance declaration
ProcessInstance(instance) ==
    /\ resolve_pc = "instances"
    /\ InstancesDone < MaxDecls
    /\ \E after \in {process_instance(instance, resolve_errors)} :
          /\ resolve_errors' = after
          /\ resolve_log' = Append(resolve_log,
                                   [kind |-> "instance", instance |-> instance,
                                    before |-> resolve_errors, after |-> after])
    /\ UNCHANGED <<resolve_pc, resolve_result, notResolve>>

\* the instance loop of resolve ends and the function loop begins
InstancesEnd ==
    /\ resolve_pc = "instances"
    /\ resolve_pc' = "functions"
    /\ UNCHANGED <<resolve_errors, resolve_log, resolve_result, notResolve>>

\* the function loop of resolve reaches the next function: process_function
\* resolves its body, which may leave an error
ProcessFunction(bad) ==
    /\ resolve_pc = "functions"
    /\ BodiesDone < MaxBodies
    /\ \E after \in {resolve_errors \o (IF bad THEN <<ResolverError("UnknownFunction", "", 0)>>
                                         ELSE << >>)} :
          /\ resolve_errors' = after
          /\ resolve_log' = Append(resolve_log,
                                   [kind |-> "function", before |-> resolve_errors,
                                    after |-> after])
    /\ UNCHANGED <<resolve_pc, resolve_result, notResolve>>

\* the function loop ends: resolve returns
ResolveReturn ==
    /\ resolve_pc = "functions"
    /\ resolve_pc' = "done"
    /\ resolve_result' = IF resolve_errors = << >> THEN Ok ELSE Err(resolve_errors)
    /\ UNCHANGED <<resolve_errors, resolve_log, notResolve>>

NextResolve ==
    \/ \E failed \in EarlyPasses \cup {""} : ResolveStart(failed)
    \/ \E instance \in AstInstances : ProcessInstance(instance)
    \/ InstancesEnd
    \/ \E bad \in BOOLEAN : ProcessFunction(bad)
    \/ ResolveReturn

\* ------------------------------------------------- Typechecker::check

FnIds == 1..MaxFns

\* a function of the program: a lambda, a named function with a type
\* signature and a body ("typed"), one with a body only ("untyped") or one
\* with neither ("extern"), and the functions its body calls statically
FnKinds == {"lambda", "typed", "untyped", "extern"}
Fn(kind, function_deps) == [kind |-> kind, function_deps |-> function_deps]

\* the programs: the walker visits bodies only, and lambdas are skipped
Programs ==
    {p \in [FnIds -> {Fn(k, d) : k \in FnKinds, d \in SUBSET FnIds}] :
        \A id \in FnIds : p[id].kind \in {"lambda", "extern"} => p[id].function_deps = {}}

\* a TypecheckError
TypecheckError(kind, id) == [kind |-> kind, id |-> id]

\* the elements of a set of integers in ascending order (BTreeSet iteration)
RECURSIVE Ascending(_)
Ascending(S) ==
    IF S = {} THEN << >>
    ELSE Only({<<least>> \o Ascending(S \ {least})
               : least \in {CHOOSE x \in S : \A y \in S : x <= y}})

\* the first loop of check over program.functions: the untyped functions,
\* the typed ones, and an error for every function with no signature and no body
RECURSIVE extern_errors(_, _)
extern_errors(program, ids) ==
    IF ids = << >> THEN << >>
    ELSE (IF program[Head(ids)].kind = "extern"
          THEN <<TypecheckError("UntypedExternFunction", Head(ids))>>
          ELSE << >>)
         \o extern_errors(program, Tail(ids))

untyped_functions_of(program) == {id \in FnIds : program[id].kind \in {"untyped", "extern"}}
typed_functions_of(program) == {id \in FnIds : program[id].kind = "typed"}

\* one pass of the while loop that takes every untyped function at once
processed_of_all(program, untyped_functions) == Ascending(untyped_functions)

\* one pass of the while loop of check_function_deps: the functions none of
\* whose dependencies is still untyped, in id order
processed_of(program, untyped_functions) ==
    Ascending({id \in untyped_functions :
                  program[id].function_deps \cap untyped_functions = {}})

\* Typechecker::check_function_deps: the check order and the errors pushed
RECURSIVE check_function_deps(_, _, _, _)
check_function_deps(program, untyped_functions, untyped_check_order, passes) ==
    IF untyped_functions = {}
    THEN [order |-> untyped_check_order, errors |-> << >>, passes |-> passes]
    ELSE Only({
        IF processed = << >>
        THEN [order |-> untyped_check_order,
              errors |-> <<TypecheckError("FunctionTypeDependencyLoop", 0)>>,
              passes |-> passes + 1]
        ELSE check_function_deps(program,
                                 untyped_functions \ {processed[k] : k \in 1..Len(processed)},
                                 untyped_check_order \o processed, passes + 1)
        : processed \in {processed_of(program, untyped_functions)}})

InitCheck ==
    /\ check_pc = "idle"
    /\ check_program = << >>
    /\ check_errors = << >>
    /\ check_order = << >>
    /\ check_log = << >>
    /\ check_result = [kind |-> "None"]

\* check is called: the loop over the functions, check_function_deps, and
\* the return of Err if either left an error
CheckStart(program) ==
    /\ check_pc = "idle"
    /\ check_program' = program
    /\ \E r \in {check_function_deps(program, untyped_functions_of(program), << >>, 0)} :
       \E errs \in {extern_errors(program, Ascending(FnIds)) \o r.errors} :
          /\ check_order' = r.order
          /\ check_errors' = errs
          /\ IF errs # << >>
             THEN check_pc' = "done" /\ check_result' = Err(errs)
             ELSE check_pc' = "bodies" /\ UNCHANGED check_result
    /\ UNCHANGED <<check_log, notCheck>>

\* the loop over untyped_check_order reaches its next function:
\* check_untyped_function types the body, which may leave an error
CheckUntypedFunction(bad) ==
    /\ check_pc = "bodies"
    /\ Len(check_log) < Len(check_order)
    /\ \E id \in {check_order[Len(check_log) + 1]} :
          /\ check_log' = Append(check_log, [function_id |-> id, before |-> check_errors])
          /\ check_errors' = check_errors \o (IF bad THEN <<TypecheckError("TypeMismatch", id)>>
                                               ELSE << >>)
    /\ UNCHANGED <<check_pc, check_program, check_order, check_result, notCheck>>

\* the loop over untyped_check_order ends: check returns
CheckReturn ==
    /\ check_pc = "bodies"
    /\ Len(check_log) = Len(check_order)
    /\ check_pc' = "done"
    /\ check_result' = IF check_errors = << >> THEN Ok ELSE Err(check_errors)
    /\ UNCHANGED <<check_program, check_errors, check_order, check_log, notCheck>>

NextCheck ==
    \/ \E program \in Programs : CheckStart(program)
    \/ \E bad \in BOOLEAN : CheckUntypedFunction(bad)
    \/ CheckReturn

\* ------------------------------------------------ Program: id counters

\* Counter::new and Counter::next: the value returned and the counter after
Counter_new == 0
Counter_next(counter) == [id |-> counter, counter |-> counter + 1]

\* the id kinds of syntax::Program and of ir::Program
SyntaxKinds ==
    {"module", "function", "import", "expr", "adt", "variant", "record", "record_item",
     "type_signature"}
IrKinds == {"type_signature", "expr", "function", "typedef"}

\* syntax::Program::new and ir::Program::new: one counter per kind
SyntaxProgram_new == [kind \in SyntaxKinds |-> Counter_new]
IrProgram_new == [kind \in IrKinds |-> Counter_new]

\* the counter field each get_<kind>_id of syntax::Program calls next on
syntax_counter_of(kind) == IF kind = "function" THEN "module" ELSE kind

\* the counter field each get_<kind>_id of ir::Program calls next on
ir_counter_of(kind) == kind

InitIds ==
    /\ syntax_program = SyntaxProgram_new
    /\ ir_program = IrProgram_new
    /\ issued = << >>

\* syntax::Program::get_<kind>_id
SyntaxGetId(kind) ==
    /\ Len(issued) < MaxIds
    /\ \E r \in {Counter_next(syntax_program[syntax_counter_of(kind)])} :
          /\ syntax_program' = [syntax_program EXCEPT ![syntax_counter_of(kind)] = r.counter]
          /\ issued' = Append(issued, [program |-> "syntax", kind |-> kind, id |-> r.id])
    /\ UNCHANGED <<ir_program, notIds>>

\* ir::Program::get_<kind>_id
IrGetId(kind) ==
    /\ Len(issued) < MaxIds
    /\ \E r \in {Counter_next(ir_program[ir_counter_of(kind)])} :
          /\ ir_program' = [ir_program EXCEPT ![ir_counter_of(kind)] = r.counter]
          /\ issued' = Append(issued, [program |-> "ir", kind |-> kind, id |-> r.id])
    /\ UNCHANGED <<syntax_program, notIds>>

NextIds ==
    \/ \E kind \in SyntaxKinds : SyntaxGetId(kind)
    \/ \E kind \in IrKinds : IrGetId(kind)

\* ------------------------------------ CloneContext and the Unifier walk

TString == [k |-> "String"]

\* TypeStore::allocate_var and allocate_index: the id is taken, the entry is
\* inserted later
Unset == [k |-> "Unset"]
allocate_var(st) ==
    [st EXCEPT !.variables = Append(st.variables, 0), !.var_counter = st.var_counter + 1]
allocate_index(st) ==
    [st EXCEPT !.indices = Append(st.indices, Unset), !.index_counter = st.index_counter + 1]

\* TypeStore::get_new_type_var: a type argument with a unique index
get_new_type_var(st) ==
    add_type([st EXCEPT !.arg_counter = st.arg_counter + 1], TypeArgument(st.arg_counter, << >>))

\* CloneContext::new
CloneContext_new(st) ==
    [vars |-> << >>, args |-> << >>, indices |-> << >>, type_store |-> st]

RECURSIVE clone_var(_, _)
RECURSIVE clone_vars(_, _, _)

\* Type::clone_type: the children are cloned through the context, a type
\* argument takes the context's argument for its index
clone_type(context, ty) ==
    CASE ty.k \in {"Int", "Bool", "String"} -> [context |-> context, ty |-> ty]
      [] ty.k = "TypeArgument" ->
            IF ty.arg \in DOMAIN context.args
            THEN [context |-> context,
                  ty |-> TypeArgument(context.args[ty.arg], ty.constraints)]
            ELSE [context |-> [context EXCEPT
                                  !.args = (ty.arg :> context.type_store.arg_counter) @@ @,
                                  !.type_store.arg_counter = @ + 1],
                  ty |-> TypeArgument(context.type_store.arg_counter, ty.constraints)]
      [] ty.k = "Tuple" ->
            Only({[context |-> r.context, ty |-> TTuple(r.vars)]
                  : r \in {clone_vars(context, ty.items, 1)}})
      [] ty.k = "Named" ->
            Only({[context |-> r.context, ty |-> TNamed(ty.name, ty.id, r.vars)]
                  : r \in {clone_vars(context, ty.items, 1)}})
      [] ty.k = "Function" ->
            Only({[context |-> r.context, ty |-> TFunction(r.vars[1], r.vars[2])]
                  : r \in {clone_vars(context, <<ty.from, ty.to>>, 1)}})

\* clone_var on the children of a type from position k on, left to right
clone_vars(context, vars_, k) ==
    IF k > Len(vars_) THEN [context |-> context, vars |-> << >>]
    ELSE Only({Only({[context |-> rest.context, vars |-> <<first.var>> \o rest.vars]
                     : rest \in {clone_vars(first.context, vars_, k + 1)}})
               : first \in {clone_var(context, vars_[k])}})

\* CloneContext::clone_var
clone_var(context, var) ==
    IF var \in DOMAIN context.vars THEN [context |-> context, var |-> context.vars[var]]
    ELSE Only({
        IF index \in DOMAIN with_var.indices
        THEN [context |-> [with_var EXCEPT
                              !.type_store.variables[new_var] = with_var.indices[index]],
              var |-> new_var]
        ELSE Only({
            Only({[context |-> [r.context EXCEPT
                                   !.type_store.indices[new_index] = r.ty,
                                   !.type_store.variables[new_var] = new_index],
                   var |-> new_var]
                  : r \in {clone_type([with_var EXCEPT
                                          !.indices = (index :> new_index) @@ @,
                                          !.type_store = allocate_index(@)],
                                      with_var.type_store.indices[index])}})
            : new_index \in {with_var.type_store.index_counter + 1}})
        : new_var \in {context.type_store.var_counter + 1},
          index \in {get_index(context.type_store, var)},
          with_var \in {[context EXCEPT
                            !.vars = (var :> context.type_store.var_counter + 1) @@ @,
                            !.type_store = allocate_var(@)]}})

\* the variable itself in place of a clone of its type
same_type_var(st, var) == [store |-> st, var |-> var]

\* TypeStore::clone_type_var_simple: the type of var cloned in a context of
\* its own and added as a new variable
clone_type_var_simple(st, var) ==
    Only({[store |-> add_type(r.context.type_store, r.ty),
           var |-> added_var(r.context.type_store)]
          : r \in {clone_type(CloneContext_new(st), get_type(st, var))}})

\* the types that the passes before the walk have put into the store: the
\* function types and the record type infos of the program
DeclaredTypes ==
    <<TInt, TInt, TInt, TFunction(2, 3), TFunction(1, 4),
      TypeArgument(0, << >>), TFunction(6, 6),
      TInt, TBool, TFunction(8, 9), TInt, TFunction(10, 11),
      TNamed("Pair", "Pair", << >>), TInt, TBool,
      TNamed("Person", "Person", << >>), TBool, TInt,
      TNamed("Pet", "Pet", << >>), TInt, TBool,
      TypeArgument(1, << >>), TNamed("Box", "Box", <<22>>),
      TypeArgument(2, << >>), TInt, TFunction(24, 25)>>

RECURSIVE add_types(_, _, _)
add_types(st, types, k) ==
    IF k > Len(types) THEN st ELSE add_types(add_type(st, types[k]), types, k + 1)

DeclaredStore == [add_types(TypeStore_new, DeclaredTypes, 1) EXCEPT !.arg_counter = 3]

\* function_type_info_map: add :: Int -> Int -> Int, id :: a -> a (inferred
\* in an earlier group), app :: (Int -> Bool) -> Int, and const1 x = 1 of
\* the current group, whose type so far is a -> Int
TypedFunctionIds == {"add", "id", "app"}
function_type_of(function_id) ==
    CASE function_id = "add" -> 5
      [] function_id = "id" -> 7
      [] function_id = "app" -> 12
      [] function_id = "const1" -> 26

\* record_type_info_map: the record type and the field types in
\* declaration order
RecordTypeInfo(record_type, field_types) ==
    [record_type |-> record_type, field_types |-> field_types]
record_type_info_map(record_id) ==
    CASE record_id = "Pair" -> RecordTypeInfo(13, <<14, 15>>)
      [] record_id = "Person" -> RecordTypeInfo(16, <<17, 18>>)
      [] record_id = "Pet" -> RecordTypeInfo(19, <<20, 21>>)
      [] record_id = "Box" -> RecordTypeInfo(23, <<22>>)

\* Unifier::get_function_type_var with the clone, for whatever group
get_function_type_var_cloned(st, function_id, in_group) ==
    Only({[store |-> r.context.type_store, var |-> r.var, vars |-> r.context.vars]
          : r \in {clone_var(CloneContext_new(st), function_type_of(function_id))}})

\* Unifier::get_function_type_var with the function's own variable, for
\* whatever group
get_function_type_var_own(st, function_id, in_group) ==
    [store |-> st, var |-> function_type_of(function_id), vars |-> << >>]

\* Unifier::get_function_type_var: the function's own variable inside the
\* group, a clone of it outside
get_function_type_var(st, function_id, in_group) ==
    IF in_group THEN get_function_type_var_own(st, function_id, in_group)
    ELSE get_function_type_var_cloned(st, function_id, in_group)

\* Unifier::get_record_type_info: the record type and the field types
\* cloned in one context
get_record_type_info(st, record_id) ==
    Only({Only({[store |-> fields.context.type_store,
                 info |-> RecordTypeInfo(record.var, fields.vars),
                 vars |-> fields.context.vars]
                : fields \in {clone_vars(record.context,
                                         record_type_info_map(record_id).field_types, 1)}})
          : record \in {clone_var(CloneContext_new(st),
                                  record_type_info_map(record_id).record_type)}})

\* ExprProcessor::unify_variables: the store and the errors after
unify_variables(st, expected, found, location) ==
    Only({[store |-> r.store, ok |-> r.ok,
           errors |-> IF r.ok THEN << >> ELSE <<TypecheckError("TypeMismatch", location)>>]
          : r \in {unify(st, expected, found)}})

\* the kinds of expression a call has as arguments and a field access as
\* receiver: literals, a reference with nothing known of its type, and the
\* function const1 of the group called without arguments
ArgKinds == {"int", "bool", "free", "const1"}

\* the visit of an argument expression: a literal is unified with its type
\* (check_literal_expr), a call without arguments of a function of the
\* group with the function's own type (static_function_call)
visit_leaf(st, kind, var) ==
    CASE kind = "free" -> [store |-> st, errors |-> << >>]
      [] kind = "int" ->
            Only({[store |-> r.store, errors |-> r.errors]
                  : r \in {unify_variables(add_type(st, TInt), var, added_var(st), var)}})
      [] kind = "bool" ->
            Only({[store |-> r.store, errors |-> r.errors]
                  : r \in {unify_variables(add_type(st, TBool), var, added_var(st), var)}})
      [] kind = "const1" ->
            Only({[store |-> r.store, errors |-> r.errors]
                  : r \in {unify_variables(st, var, function_type_of("const1"), var)}})

\* TypeVarCreator: a new type variable for each of n expressions
RECURSIVE create_type_vars(_, _)
create_type_vars(st, n) ==
    IF n = 0 THEN st ELSE create_type_vars(get_new_type_var(st), n - 1)

\* the visits of the leaf expressions whose variables are vars_, from k on
RECURSIVE visit_leaves(_, _, _, _)
visit_leaves(st, kinds, vars_, k) ==
    IF k > Len(kinds) THEN [store |-> st, errors |-> << >>]
    ELSE Only({Only({[store |-> rest.store, errors |-> first.errors \o rest.errors]
                     : rest \in {visit_leaves(first.store, kinds, vars_, k + 1)}})
               : first \in {visit_leaf(st, kinds[k], vars_[k])}})

\* one pass of the while loop of static_function_call
CallStep(function_type_var, ty, arg, before, r) ==
    [function_type_var |-> function_type_var, is_function |-> ty.k = "Function",
     ty |-> ty, arg |-> arg, before |-> before, after |-> r.store, ok |-> r.ok]

\* the while loop of static_function_call from argument k on
RECURSIVE call_walk(_, _, _, _, _)
call_walk(st, function_type_var, arg_vars, k, steps) ==
    IF k > Len(arg_vars)
    THEN [store |-> st, failed |-> FALSE, function_type_var |-> function_type_var,
          steps |-> steps]
    ELSE Only({
        IF ty.k # "Function"
        THEN [store |-> st, failed |-> TRUE, function_type_var |-> function_type_var,
              steps |-> Append(steps, CallStep(function_type_var, ty, arg_vars[k], st,
                                               Unified(FALSE, st)))]
        ELSE Only({
            IF ~r.ok
            THEN [store |-> r.store, failed |-> TRUE,
                  function_type_var |-> function_type_var,
                  steps |-> Append(steps, CallStep(function_type_var, ty, arg_vars[k], st, r))]
            ELSE call_walk(r.store, ty.to, arg_vars, k + 1,
                           Append(steps, CallStep(function_type_var, ty, arg_vars[k], st, r)))
            : r \in {unify(st, ty.from, arg_vars[k])}})
        : ty \in {get_type(st, function_type_var)}})

\* the end of static_function_call that unifies the expression also when
\* the walk failed
call_end_always(walk, expr_var) ==
    Only({[store |-> r.store,
           errors |-> (IF walk.failed
                       THEN <<TypecheckError("FunctionArgumentMismatch", expr_var)>>
                       ELSE << >>) \o r.errors]
          : r \in {unify_variables(walk.store, expr_var, walk.function_type_var, expr_var)}})

\* the end of static_function_call: FunctionArgumentMismatch if the walk
\* failed, else the expression is unified with what is left of the type
call_end(walk, expr_var) ==
    IF walk.failed
    THEN [store |-> walk.store,
          errors |-> <<TypecheckError("FunctionArgumentMismatch", expr_var)>>]
    ELSE Only({[store |-> r.store, errors |-> r.errors]
               : r \in {unify_variables(walk.store, expr_var, walk.function_type_var,
                                        expr_var)}})

\* the variables TypeVarCreator gives n expressions in a store
NewVars(st, n) == [k \in 1..n |-> st.var_counter + k]

\* the log keeps the expression checked before the last one, and not more
Forget(log) ==
    IF "earlier" \in DOMAIN log THEN [x \in DOMAIN log \ {"earlier"} |-> log[x]] ELSE log

\* the dependency groups a walk is made for: const1 alone, or const1 with id
\* while the type of id is still being inferred
Groups == {{"const1"}, {"const1", "id"}}

InitInfer ==
    /\ tc_group = {}
    /\ tc_errors = << >>
    /\ tc_checks = 0
    /\ tc_log = [kind |-> "None"]

\* the passes before the walk have registered the types of the program,
\* and the walk is for one dependency group
Declare(group) ==
    /\ tc_log.kind = "None"
    /\ store = TypeStore_new
    /\ store' = DeclaredStore
    /\ tc_group' = group
    /\ tc_log' = [kind |-> "Declared"]
    /\ UNCHANGED <<tc_errors, tc_checks, notInfer>>

\* the walk is under way and may check one more expression
Walking == tc_log.kind \notin {"None"} /\ tc_checks < MaxChecks

\* a StaticFunctionCall expression whose arguments are leaf expressions is
\* given its type variables and visited, arguments first
CheckStaticCall(function_id, arg_kinds) ==
    /\ Walking
    /\ \E created \in {create_type_vars(store, 1 + Len(arg_kinds))} :
       \E expr_var \in {store.var_counter + 1} :
       \E arg_vars \in {[k \in 1..Len(arg_kinds) |-> store.var_counter + 1 + k]} :
       \E leaves \in {visit_leaves(created, arg_kinds, arg_vars, 1)} :
       \E f \in {get_function_type_var(leaves.store, function_id, function_id \in tc_group)} :
       \E walk \in {call_walk(f.store, f.var, arg_vars, 1, << >>)} :
       \E r \in {call_end(walk, expr_var)} :
          /\ store' = r.store
          /\ tc_errors' = tc_errors \o leaves.errors \o r.errors
          /\ tc_log' = [kind |-> "StaticFunctionCall", function_id |-> function_id,
                        arg_kinds |-> arg_kinds, in_group |-> function_id \in tc_group,
                        expr_var |-> expr_var, arg_vars |-> arg_vars,
                        prepared |-> leaves.store, cloned |-> f.vars,
                        function_type_var |-> f.var, entered |-> f.store,
                        steps |-> walk.steps, failed |-> walk.failed,
                        tail |-> walk.function_type_var,
                        pushed |-> r.errors, started |-> store,
                        earlier |-> Forget(tc_log)]
    /\ tc_checks' = tc_checks + 1
    /\ UNCHANGED <<tc_group, notInfer>>

\* FieldAccessInfo: a record that declares the field, and the index of
\* the field in its declaration
FieldAccessInfo(record_id, index) == [record_id |-> record_id, index |-> index]
FieldNames == {"age", "name", "first", "value"}
FieldAccessInfos(field) ==
    CASE field = "age" -> <<FieldAccessInfo("Person", 2), FieldAccessInfo("Pet", 2)>>
      [] field = "name" -> <<FieldAccessInfo("Person", 1)>>
      [] field = "first" -> <<FieldAccessInfo("Pair", 1)>>
      [] field = "value" -> <<FieldAccessInfo("Box", 1)>>

AmbiguousFieldAccess(location, possible_records) ==
    [kind |-> "AmbiguousFieldAccess", id |-> location, records |-> possible_records]

\* the loop of FieldAccess over the candidates from k on: each record type
\* is tried against a clone of the receiver's type
RECURSIVE field_access_tests(_, _, _, _, _)
field_access_tests(st, infos, record_expr_var, k, matched) ==
    IF k > Len(infos) THEN [store |-> st, matches |-> matched]
    ELSE Only({Only({Only({
             field_access_tests(r.store, infos, record_expr_var, k + 1,
                 IF r.ok THEN Append(matched, [info |-> real.info, field |-> infos[k]])
                 ELSE matched)
             : r \in {unify(test_var.store, test_var.var, test.info.record_type)}})
           : test_var \in {clone_type_var_simple(real.store, record_expr_var)}})
         : test \in {get_record_type_info(st, infos[k].record_id)},
           real \in {get_record_type_info(get_record_type_info(st, infos[k].record_id).store,
                                          infos[k].record_id)}})

\* the match on the number of matching records
field_access_end(tests, record_expr_var, expr_var) ==
    CASE Len(tests.matches) = 0 ->
            [store |-> tests.store, errors |-> <<TypecheckError("TypeMismatch", expr_var)>>]
      [] Len(tests.matches) = 1 ->
            Only({Only({[store |-> second.store, errors |-> first.errors \o second.errors]
                        : second \in {unify_variables(
                              first.store,
                              tests.matches[1].info.field_types[tests.matches[1].field.index],
                              expr_var, expr_var)}})
                  : first \in {unify_variables(tests.store,
                                               tests.matches[1].info.record_type,
                                               record_expr_var, record_expr_var)}})
      [] OTHER ->
            [store |-> tests.store,
             errors |-> <<AmbiguousFieldAccess(expr_var,
                              [i \in 1..Len(tests.matches) |-> tests.matches[i].field.record_id])>>]

\* the receivers of a field access: a leaf expression, or the expression
\* checked last
Receivers == ArgKinds \cup {"last"}

\* a FieldAccess expression is given its type variable and visited after
\* its receiver
CheckFieldAccess(field, receiver) ==
    /\ Walking
    /\ receiver = "last" => "expr_var" \in DOMAIN tc_log
    /\ \E created \in {create_type_vars(store, IF receiver = "last" THEN 1 ELSE 2)} :
       \E expr_var \in {store.var_counter + 1} :
       \E record_expr_var \in {IF receiver = "last" THEN tc_log.expr_var
                                ELSE store.var_counter + 2} :
       \E leaves \in {IF receiver = "last" THEN [store |-> created, errors |-> << >>]
                       ELSE visit_leaf(created, receiver, record_expr_var)} :
       \E tests \in {field_access_tests(leaves.store, FieldAccessInfos(field),
                                         record_expr_var, 1, << >>)} :
       \E r \in {field_access_end(tests, record_expr_var, expr_var)} :
          /\ store' = r.store
          /\ tc_errors' = tc_errors \o leaves.errors \o r.errors
          /\ tc_log' = [kind |-> "FieldAccess", field |-> field, receiver |-> receiver,
                        expr_var |-> expr_var, record_expr_var |-> record_expr_var,
                        prepared |-> leaves.store, tested |-> tests.store,
                        matches |-> tests.matches,
                        pushed |-> r.errors, started |-> store,
                        earlier |-> Forget(tc_log)]
    /\ tc_checks' = tc_checks + 1
    /\ UNCHANGED <<tc_group, notInfer>>

\* RecordInitItem: the expression of an item and the declaration index of
\* its field
RecordInitItem(index, kind) == [index |-> index, kind |-> kind]
ItemKinds == {"int", "bool", "free"}
InitRecordIds == {"Pair", "Person", "Box"}
FieldCount(record_id) == Len(record_type_info_map(record_id).field_types)

\* the item lists of a record initialization: every field once, in any
\* order
RecordInitItems(record_id) ==
    {items \in [1..FieldCount(record_id) -> [index : 1..FieldCount(record_id), kind : ItemKinds]] :
        \A i, j \in DOMAIN items : i # j => items[i].index # items[j].index}

\* the loop of RecordInitialization over the items from k on
RECURSIVE record_init_items(_, _, _, _, _)
record_init_items(st, field_types, items, item_vars, k) ==
    IF k > Len(items) THEN [store |-> st, errors |-> << >>]
    ELSE Only({Only({[store |-> rest.store, errors |-> first.errors \o rest.errors]
                     : rest \in {record_init_items(first.store, field_types, items,
                                                   item_vars, k + 1)}})
               : first \in {unify_variables(st, field_types[k], item_vars[k], item_vars[k])}})

\* a RecordInitialization expression is given its type variables and
\* visited after its items
CheckRecordInitialization(type_id, items) ==
    /\ Walking
    /\ \E created \in {create_type_vars(store, 1 + Len(items))} :
       \E expr_var \in {store.var_counter + 1} :
       \E item_vars \in {[k \in 1..Len(items) |-> store.var_counter + 1 + k]} :
       \E leaves \in {visit_leaves(created, [k \in 1..Len(items) |-> items[k].kind],
                                    item_vars, 1)} :
       \E record \in {get_record_type_info(leaves.store, type_id)} :
       \E whole \in {unify_variables(record.store, record.info.record_type, expr_var,
                                      expr_var)} :
       \E r \in {record_init_items(whole.store, record.info.field_types, items,
                                    item_vars, 1)} :
          /\ store' = r.store
          /\ tc_errors' = tc_errors \o leaves.errors \o whole.errors \o r.errors
          /\ tc_log' = [kind |-> "RecordInitialization", type_id |-> type_id,
                        items |-> items, expr_var |-> expr_var, item_vars |-> item_vars,
                        prepared |-> leaves.store, info |-> record.info,
                        cloned |-> record.vars, entered |-> record.store,
                        pushed |-> whole.errors \o r.errors, started |-> store,
                        earlier |-> Forget(tc_log)]
    /\ tc_checks' = tc_checks + 1
    /\ UNCHANGED <<tc_group, notInfer>>

NextInfer ==
    \/ \E group \in Groups : Declare(group)
    \/ \E function_id \in TypedFunctionIds :
       \E arg_kinds \in SeqsOf(ArgKinds, 0, MaxCallArgs) :
          CheckStaticCall(function_id, arg_kinds)
    \/ \E field \in FieldNames, receiver \in Receivers : CheckFieldAccess(field, receiver)
    \/ \E type_id \in InitRecordIds :
       \E items \in RecordInitItems(type_id) : CheckRecordInitialization(type_id, items)

InitFront == InitResolve /\ InitCheck /\ InitIds /\ InitInfer

Init == InitCall /\ InitMatch /\ InitDispatch /\ InitStore /\ InitResolver /\ InitQuery /\ InitSlot /\ InitFront

\* Expr::StaticFunctionCall: a callable for function_id with no collected
\* argument is built and called with the evaluated arguments; the chain of
\* calls followed starts here
StaticFunctionCall(function_id, args) ==
    LET callable == CallableValue(function_id, << >>, "site", function_types(function_id))
    IN  /\ calls = << >>
        /\ origin' = function_id
        /\ \E r \in {call(callable, args)} :
              /\ held' = r.value
              /\ calls' = <<CallRecord(callable, args, r)>>
        /\ UNCHANGED notCall

\* Expr::DynamicFunctionCall: the value of the function expression is called
DynamicFunctionCall(args) ==
    /\ calls # << >>
    /\ Len(calls) < MaxCalls
    /\ ~calls[Len(calls)].aborted
    /\ \E r \in {call(held, args)} :
           /\ held' = r.value
           /\ calls' = Append(calls, CallRecord(held, args, r))
    /\ UNCHANGED <<origin, notCall>>

NextCall ==
    \/ \E f \in FunctionIds, args \in SeqsOf(ArgValues, 0, MaxArgs) :
          StaticFunctionCall(f, args)
    \/ \E args \in SeqsOf(ArgValues, 1, MaxArgs - 1) : DynamicFunctionCall(args)

SpecCall == Init /\ [][NextCall]_vars
SpecMatch == Init /\ [][NextMatch]_vars
SpecDispatch == Init /\ [][NextDispatch]_vars
SpecStore == Init /\ [][NextStore]_vars
SpecResolver == Init /\ [][NextResolver]_vars
SpecInstances == Init /\ [][NextInstances]_vars
SpecSlot == Init /\ [][NextSlot]_vars
SpecEval == Init /\ [][NextEval]_vars
SpecInfer == Init /\ [][NextInfer]_vars
SpecIds == Init /\ [][NextIds]_vars
SpecCheck == Init /\ [][NextCheck]_vars
SpecResolve == Init /\ [][NextResolve]_vars

\* -------------------------------------- claims about match_pattern

\* C2: whenever match_pattern(p, v, env) returns false, env holds exactly
\* the bindings it held before the call, whatever the shape of p.
\* Refuted: a sub-pattern of a Tuple, Record or Variant pattern that matched
\* before a later one failed, and the inner pattern of a Guarded pattern
\* whose guard is false, leave their bindings in env.
C2_MatchRollback ==
    \A i \in 1..Len(matches) :
        (~matches[i].aborted /\ ~matches[i].matched) =>
            matches[i].after.frames = matches[i].before.frames

\* what eval_expr gives as the value of an expression of the block
\* C15: CaseOf evaluates the scrutinee exactly once, then tries the cases in
\* list order, each in its own child environment; the body of the
\* lowest-index case whose pattern matches is evaluated and its value
\* returned, no pattern or body of a later case is evaluated, bindings made
\* while trying an earlier failed case are not visible to the chosen body,
\* and the evaluator aborts when no case matches.
C15_CaseOfFirstMatch ==
    mcase.kind = "CaseOf" =>
        LET n == Len(matches)
            cases == mcase.cases
        IN  /\ mcase.evaluated[1] = mcase.body
            /\ Len(mcase.evaluated) = IF mcase.chosen = 0 THEN 1 ELSE 2
            /\ n <= Len(cases)
            /\ \A i \in 1..n :
                  /\ matches[i].pattern_id = cases[i].pattern_id
                  /\ matches[i].value = mcase.value
                  /\ matches[i].before = block_child(menv)
                  /\ i < n => ~matches[i].matched /\ ~matches[i].aborted
            /\ mcase.chosen # 0 =>
                  /\ n = mcase.chosen
                  /\ matches[n].matched
                  /\ mcase.evaluated[2] = cases[n].body
                  /\ LET alone == match_pattern(cases[n].pattern_id, mcase.value,
                                                block_child(menv), "main")
                     IN  /\ matches[n].after = alone.environment
                         /\ mresult = ValueOf(eval_expr(cases[n].body, alone.environment, "main"))
            /\ mcase.chosen = 0 =>
                  /\ mresult = Panicked
                  /\ (n = 0 \/ ~matches[n].aborted) => n = IF mcase.value = NoValue THEN 0 ELSE Len(cases)
                  /\ n > 0 => ~matches[n].matched

\* the first case bound x to the scrutinee before its guard failed; the
\* second case was chosen and its body read x as the enclosing block has it
C15_Witness ==
    /\ mcase.kind = "CaseOf"
    /\ mcase.chosen = 2
    /\ mcase.cases[2].body = "val_x"
    /\ get_value(matches[1].after, "x") = IntValue(2, IntTy)
    /\ mresult = Evaluated(IntValue(1, IntTy))

\* no case matched: every case was tried and the evaluator aborted
C15_NoMatchWitness ==
    /\ mcase.kind = "CaseOf"
    /\ mcase.chosen = 0
    /\ Len(matches) = Len(mcase.cases)
    /\ \A i \in DOMAIN matches : ~matches[i].aborted
    /\ mresult = Panicked

\* ---------------------------------- claims about call_class_member

\* C3: call_class_member for a member m of class C with selector type S
\* invokes exactly one function: the one the instance registered for (C, S)
\* binds to m.name when that instance implements m.name, otherwise m's
\* default implementation; it aborts when neither exists, and the default is
\* never invoked when the instance has its own implementation.  (With no
\* instance registered for (C, S) nothing is invoked and the call aborts.)
C3_ClassMemberDispatch ==
    dispatched.kind = "ClassFunctionCall" =>
        LET member == ClassMembers(dispatched.member)
            found == instance_for(instance_map, member.class_id, dispatched.selector)
            default == member.default_implementation
        IN  /\ Cardinality(found) <= 1
            /\ found = {} => dispatched.callee = "" /\ dispatched.aborted
            /\ \A e \in found :
                  LET own == Instances(e.instance_id).members[member.name]
                  IN  /\ own # "" => dispatched.callee = own /\ dispatched.callee # default
                      /\ (own = "" /\ default # "") => dispatched.callee = default
                      /\ (own = "" /\ default = "") =>
                             dispatched.callee = "" /\ dispatched.aborted
            /\ dispatched.callee = "" => dispatched.log = << >>
            /\ dispatched.callee # "" =>
                  /\ ~dispatched.aborted
                  /\ Len(dispatched.log) = Len(dispatched.args)
                  /\ \A k \in 1..Len(dispatched.log) :
                        dispatched.log[k].function_id = dispatched.callee
                  /\ dispatched.args = << >> =>
                        /\ dispatched.result.core = "Callable"
                        /\ dispatched.result.function_id = dispatched.callee

\* prev is called at Int where the instance implements it although the
\* class has a default
C3_Witness ==
    /\ dispatched.kind = "ClassFunctionCall"
    /\ dispatched.member = "Step.prev"
    /\ dispatched.callee = "prev_int"
    /\ ClassMembers(dispatched.member).default_implementation = "prev_default"
    /\ Len(dispatched.log) = 1
    /\ dispatched.result.core = "Int"

\* next is called at Pair, whose instance leaves it out, and has no default
C3_AbortWitness ==
    /\ dispatched.kind = "ClassFunctionCall"
    /\ dispatched.member = "Step.next"
    /\ instance_for(instance_map, "Step", NamedTy("Pair")) # {}
    /\ dispatched.aborted

\* the entries the last add found under its key
AddedOver == instance_for(dispatched.before, dispatched.class_id, dispatched.ty)

\* the last operation was an add under a key that held a different instance
AddOverOther ==
    /\ dispatched.kind = "Add"
    /\ \E e \in AddedOver : e.instance_id # dispatched.instance_id

\* every (ClassId, ConcreteType) key maps to at most one InstanceId
OneInstancePerKey ==
    \A e1, e2 \in instance_map :
        (e1.class_id = e2.class_id /\ e1.ty = e2.ty) => e1.instance_id = e2.instance_id

\* C12 as stated: every key maps to at most one InstanceId, and an add of a
\* different instance under a key already present is rejected as a conflict:
\* the map keeps the instance it had.
C12_Original ==
    /\ OneInstancePerKey
    /\ AddOverOther => instance_map = dispatched.before

\* C12, amended: every key maps to at most one InstanceId; an add under a key
\* already present is accepted without any report and replaces the instance
\* the key had (the last add wins), every other key keeping its instance.
C12_LastAddWins ==
    /\ OneInstancePerKey
    /\ dispatched.kind = "Add" =>
          /\ instance_for(instance_map, dispatched.class_id, dispatched.ty)
                 = {[class_id |-> dispatched.class_id, ty |-> dispatched.ty,
                     instance_id |-> dispatched.instance_id]}
          /\ instance_map \ instance_for(instance_map, dispatched.class_id, dispatched.ty)
                 = dispatched.before \ AddedOver

\* StepInt2 has been added under (Step, Int), which held StepInt
C12_Witness ==
    /\ AddOverOther
    /\ dispatched.instance_id = "StepInt2"
    /\ \E e \in AddedOver : e.instance_id = "StepInt"

\* -------------------------------------- claims about the type store

\* the class instances the checked program declares: (class, head type)
DeclaredInstances == {<<1, "Int">>, <<2, "Int">>, <<2, "Bool">>}

IsUnboundVar(ty) == ty.k = "TypeArgument"
Concrete(ty) == ty.k \notin {"TypeArgument", "FixedTypeArgument"}
Structured(ty) == ty.k \in {"Tuple", "Function", "Named"}

\* the last step was unify(primary, secondary) and it returned
UnifyReturned == last.kind = "Unify"
PrimaryBefore == get_type(last.before, last.primary)
SecondaryBefore == get_type(last.before, last.secondary)
SameIndexBefore == get_index(last.before, last.primary) = get_index(last.before, last.secondary)

\* the variables of the store before the call that resolved as var did
AliasesBefore(var) ==
    {w \in TypeVariables(last.before) :
        get_index(last.before, w) = get_index(last.before, var)}

\* C6: unify of an unbound variable with class constraints C and a concrete
\* type T succeeds exactly when T has an instance of every class in C, and
\* the variable then resolves to T.
\* Refuted: has_class_instance answers false for every type and class, so
\* the call fails whenever C is not empty.
C6_ConstrainedVarUnifies ==
    (UnifyReturned /\ IsUnboundVar(PrimaryBefore) /\ Concrete(SecondaryBefore)) =>
        /\ last.ok <=>
              \A i \in DOMAIN PrimaryBefore.constraints :
                  <<PrimaryBefore.constraints[i], SecondaryBefore.k>> \in DeclaredInstances
        /\ last.ok => get_type(store, last.primary) = SecondaryBefore

\* the type ty holds, directly or through the types of its children, a
\* variable that resolves to index
RECURSIVE Contains(_, _, _, _)
Contains(st, ty, index, seen) ==
    \E i \in DOMAIN children(ty) :
        LET child == children(ty)[i]
        IN  \/ get_index(st, child) = index
            \/ /\ child \notin seen
               /\ Contains(st, get_type(st, child), index, seen \cup {child})

\* the two sides of the last unify, in either order
Sides == {<<last.primary, last.secondary>>, <<last.secondary, last.primary>>}

\* v is unbound and t is a structured type, in the store before the call
VarAndStructure(v, t) ==
    /\ IsUnboundVar(get_type(last.before, v))
    /\ Structured(get_type(last.before, t))

\* the structured type t contains the unbound variable v
Occurs(v, t) ==
    /\ VarAndStructure(v, t)
    /\ Contains(last.before, get_type(last.before, t), get_index(last.before, v), {})

\* the last step was a unify of an unbound variable with a structured type
\* that contains it
OccursCase == UnifyReturned /\ \E side \in Sides : Occurs(side[1], side[2])

NoneRecursive(st) == \A v \in TypeVariables(st) : ~is_recursive(st, v)

\* the statement of C7 as written: the occurs case fails, and a successful
\* unify leaves no variable recursive
C7_Original ==
    /\ OccursCase => ~last.ok
    /\ (UnifyReturned /\ last.ok /\ NoneRecursive(last.before)) => NoneRecursive(store)

\* C7 (amended): unify has no occurs check.  Unifying an unbound variable v
\* without class constraints with a structured type succeeds and makes v,
\* and every variable that resolved as v, resolve to that type; when the
\* type contains v, v is recursive afterwards (is_recursive(v) holds), which
\* is how the recursion is found, after the fact.
C7_NoOccursCheck ==
    UnifyReturned =>
        \A side \in Sides :
            LET v == side[1]
                t == side[2]
            IN  (/\ VarAndStructure(v, t)
                 /\ get_type(last.before, v).constraints = << >>) =>
                    /\ last.ok
                    /\ \A w \in AliasesBefore(v) :
                          get_index(store, w) = get_index(last.before, t)
                    /\ get_type(store, v) = get_type(last.before, t)
                    /\ Occurs(v, t) => is_recursive(store, v)

\* v was unified with Tuple([v])
C7_Witness ==
    /\ OccursCase
    /\ PrimaryBefore = TypeArgument(0, << >>)
    /\ SecondaryBefore = TTuple(<<last.primary>>)
    /\ last.ok
    /\ is_recursive(store, last.primary)

ConstraintSet(ty) == Range(ty.constraints)

\* C8: a fixed type argument F with constraints D unifies, in either
\* argument order, only with itself or with an unbound variable whose
\* constraints are a subset of D; the unbound variable and its aliases then
\* resolve to F and F's type is unchanged.  With a concrete type, a tuple, a
\* function type or a different fixed argument the call fails.
C8_FixedTypeArgument ==
    UnifyReturned =>
        \A side \in Sides :
            LET f == side[1]
                other == side[2]
                F == get_type(last.before, f)
                O == get_type(last.before, other)
            IN  F.k = "FixedTypeArgument" =>
                  /\ last.ok <=>
                        \/ get_index(last.before, f) = get_index(last.before, other)
                        \/ IsUnboundVar(O) /\ ConstraintSet(O) \subseteq ConstraintSet(F)
                  /\ get_type(store, f) = F
                  /\ get_index(store, f) = get_index(last.before, f)
                  /\ (last.ok /\ IsUnboundVar(O)) =>
                        \A w \in AliasesBefore(other) :
                            /\ get_index(store, w) = get_index(last.before, f)
                            /\ get_type(store, w) = F
                  /\ ~last.ok => store = last.before

\* a constrained variable with an alias was unified with a fixed argument
\* that has its constraint
C8_Witness ==
    /\ UnifyReturned
    /\ last.ok
    /\ IsUnboundVar(PrimaryBefore)
    /\ PrimaryBefore.constraints = <<1>>
    /\ SecondaryBefore.k = "FixedTypeArgument"
    /\ AliasesBefore(last.primary) # {last.primary}
    /\ get_type(store, last.primary) = SecondaryBefore

\* a fixed argument was refused by a variable with a constraint it lacks
C8_RefusedWitness ==
    /\ UnifyReturned
    /\ ~last.ok
    /\ PrimaryBefore.k = "FixedTypeArgument"
    /\ IsUnboundVar(SecondaryBefore)
    /\ SecondaryBefore.constraints = <<2>>

StrictlyIncreasing(seq) == \A i, j \in DOMAIN seq : i < j => seq[i] < seq[j]

\* the type argument indices in use in a store
UsedArgs(st) ==
    {st.indices[i].arg : i \in {j \in DOMAIN st.indices :
                                  st.indices[j].k \in {"TypeArgument", "FixedTypeArgument"}}}

\* C9: unifying two distinct unbound variables with constraint lists Ca and
\* Cb always succeeds; both, and every variable aliased to either, then
\* resolve to one freshly allocated variable whose constraint list is the
\* sorted, duplicate-free union of Ca and Cb.
C9_TypeArgumentsMerge ==
    (/\ UnifyReturned
     /\ IsUnboundVar(PrimaryBefore)
     /\ IsUnboundVar(SecondaryBefore)
     /\ ~SameIndexBefore) =>
        LET fresh == last.before.index_counter + 1
            merged == store.indices[fresh]
        IN  /\ last.ok
            /\ fresh \notin DOMAIN last.before.indices
            /\ \A w \in AliasesBefore(last.primary) \cup AliasesBefore(last.secondary) :
                  get_index(store, w) = fresh
            /\ \E v \in TypeVariables(store) \ TypeVariables(last.before) :
                  get_index(store, v) = fresh
            /\ IsUnboundVar(merged)
            /\ merged.arg \notin UsedArgs(last.before)
            /\ ConstraintSet(merged) =
                  ConstraintSet(PrimaryBefore) \cup ConstraintSet(SecondaryBefore)
            /\ StrictlyIncreasing(merged.constraints)

\* a variable constrained by class 2, with an alias, was unified with one
\* constrained by class 1
C9_Witness ==
    /\ UnifyReturned
    /\ ~SameIndexBefore
    /\ IsUnboundVar(PrimaryBefore)
    /\ IsUnboundVar(SecondaryBefore)
    /\ PrimaryBefore.constraints = <<2>>
    /\ SecondaryBefore.constraints = <<1>>
    /\ AliasesBefore(last.primary) # {last.primary}
    /\ get_type(store, last.primary).constraints = <<1, 2>>

\* -------------------------------- claims about the instance resolver

\* the registered instances of a class, as (head type, location)
InstancesOf(class_id) ==
    {<<InstanceInfo_get_type(resolver, resolver.instance_map[class_id][b][i]),
       InstanceInfo_get_location(resolver, resolver.instance_map[class_id][b][i])>> :
        <<b, i>> \in {<<b, i>> \in BaseTypes \X (1..MaxInstances + 1) :
                        i <= Len(resolver.instance_map[class_id][b])}}

\* an error names the two locations, in either order
Reported(class_id, l1, l2) ==
    \/ ConflictingInstances(class_id, l1, l2) \in errors
    \/ ConflictingInstances(class_id, l2, l1) \in errors

\* C10: for every class and every unordered pair of distinct instances of
\* it whose heads unify, check_conflicts appends a ConflictingInstances error
\* naming the two locations, and none for a pair whose heads do not unify.
\* Refuted: once a class has an instance with a variable head, only the
\* pairs with the first such instance are reported.
C10_UnifyingPairsReported ==
    checked =>
        \A c \in ClassIds :
            \A x, y \in InstancesOf(c) :
                x[2] # y[2] => (heads_unify(x[1], y[1]) <=> Reported(c, x[2], y[2]))

\* the instances of a class whose head is a type variable without constraints
GenericInstancesOf(class_id) ==
    {x \in InstancesOf(class_id) : x[1].k = "Var" /\ x[1].constraints = << >>}

\* C11: if a class has an instance whose head is an unconstrained type
\* variable, check_conflicts reports a ConflictingInstances error between that
\* instance and every other instance of the class, whatever the other's base
\* type, and none between the instance and itself.
\* Refuted: a second variable-headed instance is reported against the first
\* one only, not against the remaining instances of the class.
C11_GenericConflictsWithAll ==
    checked =>
        \A c \in ClassIds :
            \A g \in GenericInstancesOf(c) :
                /\ \A x \in InstancesOf(c) : x[2] # g[2] => Reported(c, g[2], x[2])
                /\ ~Reported(c, g[2], g[2])

\* the instance check_conflicts reads as generic_instances[0]
FirstGenericOf(class_id) ==
    {x \in GenericInstancesOf(class_id) :
        x[2] = InstanceInfo_get_location(resolver,
                                         resolver.instance_map[class_id]["Generic"][1])}

\* what does hold: the first registered variable-headed instance is reported
\* against every other instance of the class, and never against itself
C11_FirstGenericConflictsWithAll ==
    checked =>
        \A c \in ClassIds :
            \A g \in FirstGenericOf(c) :
                /\ \A x \in InstancesOf(c) : x[2] # g[2] => Reported(c, g[2], x[2])
                /\ ~Reported(c, g[2], g[2])

\* check_conflicts has run on a class that has a variable-headed instance and
\* instances of two other base types
C11_Witness ==
    /\ checked
    /\ \E c \in ClassIds :
        /\ GenericInstancesOf(c) # {}
        /\ \E x, y \in InstancesOf(c) :
              get_base_type(x[1]) = "Int" /\ get_base_type(y[1]) = "Option"

\* the instances check_instance's first has_instance call goes through
BucketOf(class_id, ty) == resolver.instance_map[class_id][get_base_type(ty)]

\* the position in ty's bucket of the first instance, in registration order,
\* whose head unifies with ty; 0 when there is none
FirstUnifying(class_id, ty) ==
    LET fits == {i \in DOMAIN BucketOf(class_id, ty) :
                    heads_unify(ty, InstanceInfo_get_type(resolver, BucketOf(class_id, ty)[i]))}
    IN  IF fits = {} THEN 0 ELSE CHOOSE i \in fits : \A j \in fits : i <= j

\* the resolution results a cache holds for (class_id, ty)
CachedFor(c, class_id, ty) ==
    {e.result : e \in {e \in c : e.class_id = class_id /\ e.ty = ty}}

\* C13: for a fixed set of registered instances and a fully concrete type ty,
\* every has_instance(ty, class) call gives the same outcome, the first
\* instance in registration order within ty's base-type bucket whose head
\* unifies with ty (or none), and the resolution result cached for
\* (class, ty) is the same on every call.
C13_HasInstanceDeterministic ==
    \A i \in DOMAIN asked :
        is_concrete_type(asked[i].ty) =>
            /\ asked[i].index = FirstUnifying(asked[i].class_id, asked[i].ty)
            /\ asked[i].index # 0 =>
                   CachedFor(asked[i].after, asked[i].class_id, asked[i].ty)
                       = {ResolutionResult(BucketOf(asked[i].class_id, asked[i].ty)[asked[i].index])}
            /\ asked[i].index = 0 =>
                   CachedFor(asked[i].after, asked[i].class_id, asked[i].ty) = {}
            /\ \A j \in DOMAIN asked :
                   (asked[j].class_id = asked[i].class_id /\ asked[j].ty = asked[i].ty) =>
                       /\ asked[j].index = asked[i].index
                       /\ asked[j].outcome = asked[i].outcome
                       /\ CachedFor(asked[j].after, asked[i].class_id, asked[i].ty)
                              = CachedFor(asked[i].after, asked[i].class_id, asked[i].ty)

\* Step (Option (Option Int)) was resolved twice where two instances of the
\* bucket unify with it, and the first one was taken
C13_Witness ==
    /\ Len(asked) = 2
    /\ asked[1].class_id = asked[2].class_id
    /\ asked[1].ty = asked[2].ty
    /\ is_concrete_type(asked[1].ty)
    /\ asked[2].index = 1
    /\ Len(BucketOf(asked[1].class_id, asked[1].ty)) >= 2
    /\ heads_unify(asked[1].ty,
                   InstanceInfo_get_type(resolver, BucketOf(asked[1].class_id, asked[1].ty)[2]))
    /\ BucketOf(asked[1].class_id, asked[1].ty)[1] # BucketOf(asked[1].class_id, asked[1].ty)[2]

\* C14: check_instance(class, ty) terminates with true or false for every
\* finite set of registered instances and every finite type, cyclically
\* dependent instance constraints included; for a type variable that
\* already carries the class it returns true at once, without a has_instance
\* call and without recording a unifier.
\* Refuted: a check can come back to a (class, type) pair it is already
\* checking, and then recurses until the stack overflows.
C14_CheckInstanceTerminates ==
    \A i \in DOMAIN asked :
        /\ asked[i].outcome \in {"true", "false"}
        /\ (asked[i].ty.k = "Var" /\ asked[i].class_id \in Range(asked[i].ty.constraints)) =>
               /\ asked[i].outcome = "true"
               /\ asked[i].lookups = 0
               /\ asked[i].unifiers = << >>

\* what does hold: the variable case, and termination for concrete types
C14_VarCarriesClass ==
    \A i \in DOMAIN asked :
        (asked[i].ty.k = "Var" /\ asked[i].class_id \in Range(asked[i].ty.constraints)) =>
            /\ asked[i].outcome = "true"
            /\ asked[i].lookups = 0
            /\ asked[i].unifiers = << >>
C14_ConcreteTerminates ==
    \A i \in DOMAIN asked :
        is_concrete_type(asked[i].ty) => asked[i].outcome \in {"true", "false"}

\* the mutually dependent instances StepOption and MarkOption were gone
\* through by one terminating check
C14_CyclicWitness ==
    \E i \in DOMAIN asked :
        /\ asked[i].ty = Named("Option", <<Named("Option", <<Named("Int", << >>)>>)>>)
        /\ asked[i].lookups = 3
        /\ asked[i].outcome = "true"

\* a check never hits the unimplemented!() of a constraint on a variable
C14_NeverUnimplemented ==
    \A i \in DOMAIN asked : asked[i].outcome # "unimplemented"

\* ------------------------------- claims about the interpreter slot

\* a read of the slot made before any run call ends in "Interpreter not set"
C16_ReadBeforeRunAborts ==
    (slot_log.kind = "Read" /\ slot_log.runs = 0) => crashed = "Interpreter not set"

\* C16: initialisation of the slot is one-shot: every read of the slot
\* before any run call aborts, and a run call made when the slot is already
\* initialised is rejected instead of replacing the published interpreter.
\* Refuted: a run call made after an earlier run has returned puts its own
\* interpreter into the slot, which still held the earlier one.
C16_OneShotInitialisation ==
    /\ C16_ReadBeforeRunAborts
    /\ slot # NoInterpreter => slot.id = 1

\* a run call made while a borrow of the slot is alive (inside main or
\* inside a class dispatch) panics at borrow_mut and leaves the slot as it was
C16_RunDuringEvaluation ==
    crashed = "already borrowed" =>
        /\ borrows > 0
        /\ stack[Len(stack)].pc = "cached"
        /\ slot.id # stack[Len(stack)].interpreter.id

\* C17: after run has returned the value of main the slot is empty again,
\* so a later read of the slot finds no interpreter.
\* Refuted: run never resets the slot; it keeps the interpreter.
C17_SlotDestroyedAfterRun ==
    /\ (runs > 0 /\ stack = << >> /\ crashed = "") => slot = NoInterpreter
    /\ (slot_log.kind = "Read" /\ slot_log.runs > 0 /\ ~slot_log.during) => slot_log.found = 0

\* what holds instead: once run has returned, the slot holds the
\* interpreter of the last run and a read finds it
C17_SlotKeptAfterRun ==
    /\ (runs > 0 /\ stack = << >> /\ crashed = "") => slot.id = runs
    /\ (slot_log.kind = "Read" /\ slot_log.runs > 0 /\ ~slot_log.during) =>
           slot_log.found = slot_log.runs

\* C18: run registers the extern functions and builds the typedef id cache,
\* then publishes the interpreter into the slot, and only then starts
\* executing main; from the first step of main until run returns the slot is
\* only read, never written, so every re-entrant class dispatch made during
\* evaluation finds the interpreter and never fails on a borrow conflict.
C18_PublishedBeforeMain ==
    /\ slot # NoInterpreter => slot.extern_functions /\ slot.typedefid_cache
    /\ \A i \in DOMAIN stack :
          /\ stack[i].pc \in {"main", "member"} => slot # NoInterpreter
          /\ stack[i].pc = "main" => slot = stack[i].interpreter
          /\ stack[i].pc = "member" => stack[i].found = slot.id
    /\ (slot_log.kind = "Read" /\ slot_log.during) =>
          /\ slot_log.found # 0
          /\ crashed \in {"", "already borrowed"}
    /\ borrows = Cardinality({i \in DOMAIN stack : stack[i].pc \in {"main", "member"}})

\* main is being evaluated and two class dispatches are nested inside it,
\* each holding its own shared borrow of the slot
C18_Witness ==
    /\ Len(stack) = 3
    /\ stack[1].pc = "main"
    /\ stack[2].pc = "member"
    /\ stack[3].pc = "member"
    /\ borrows = 3
    /\ crashed = ""

\* ---------------------------------------------- claims about call

\* the static call that started the chain, and the callable it built
FirstCallable == CallableValue(origin, << >>, "site", function_types(origin))

\* the chain is f called with k arguments, 0 < k < n, and the returned
\* value called with the n - k missing ones
SplitInTwo ==
    /\ Len(calls) = 2
    /\ Len(calls[1].args) > 0
    /\ Len(calls[1].args) < needed_arg_count(origin)
    /\ Len(calls[1].args) + Len(calls[2].args) = needed_arg_count(origin)

\* C1: for a function f needing n arguments and 0 < k < n,
\* call(call(f, a1..ak), a(k+1)..an) returns what call(f, a1..an) returns:
\* the first call executes nothing and returns a Callable, the second
\* executes f exactly once, with a1..an in their original order.
C1_PartialApplicationLaw ==
    SplitInTwo =>
        LET all == calls[1].args \o calls[2].args
            oneshot == call(FirstCallable, all)
        IN  /\ calls[1].log = << >>
            /\ ~calls[1].aborted
            /\ calls[1].result.core = "Callable"
            /\ Len(calls[2].log) = 1
            /\ calls[2].log[1].function_id = origin
            /\ calls[2].log[1].args = all
            /\ calls[2].aborted = oneshot.aborted
            /\ calls[2].result = oneshot.value
            /\ held = oneshot.value

\* a three-argument constructor applied to one argument and then to two
C1_Witness ==
    /\ SplitInTwo
    /\ origin = "triple"
    /\ Len(calls[1].args) = 1
    /\ held.core = "Variant"
    /\ held.values = calls[1].args \o calls[2].args
    /\ calls[1].args[1] # calls[2].args[1]

\* what a call's loop must have done, entry by entry
ChainConserved(c) ==
    LET n == Len(c.log)
        input == c.callable.values \o c.args
    IN  /\ \A i \in 1..n :
              /\ Len(c.log[i].args) = needed_arg_count(c.log[i].function_id)
              /\ i = 1 => /\ c.log[i].function_id = c.callable.function_id
                          /\ c.log[i].args \o c.log[i].rest = input
              /\ i > 1 => /\ c.log[i - 1].rest # << >>
                          /\ c.log[i - 1].result.core = "Callable"
                          /\ c.log[i].function_id = c.log[i - 1].result.function_id
                          /\ c.log[i].args \o c.log[i].rest
                               = c.log[i - 1].result.values \o c.log[i - 1].rest
              /\ i < n => ~c.log[i].failed
        /\ c.aborted <=>
              /\ n > 0
              /\ \/ c.log[n].failed
                 \/ c.log[n].rest # << >> /\ c.log[n].result.core # "Callable"
        /\ ~c.aborted =>
              \/ /\ n > 0
                 /\ c.log[n].rest = << >>
                 /\ c.result = c.log[n].result
              \/ /\ c.result.core = "Callable"
                 /\ needed_arg_count(c.result.function_id) > Len(c.result.values)
                 /\ n = 0 => /\ c.result.function_id = c.callable.function_id
                             /\ c.result.values = input
                 /\ n > 0 => /\ c.log[n].rest # << >>
                             /\ c.log[n].result.core = "Callable"
                             /\ c.result.function_id = c.log[n].result.function_id
                             /\ c.result.values
                                  = c.log[n].result.values \o c.log[n].rest

\* C4: once the collected arguments reach the needed count, call executes
\* the function with exactly the first `needed` of them; left-over arguments
\* require a Callable result (otherwise the call aborts) and are appended, in
\* order, after that callable's own collected arguments; call returns only
\* when nothing is left over or the current callable is under-supplied.
C4_OverApplicationChain ==
    \A i \in 1..Len(calls) : calls[i].callable.core = "Callable" => ChainConserved(calls[i])

\* adder applied to two arguments: adder runs with the first, the callable
\* it returns already holds that argument and receives the second after it
C4_Witness ==
    /\ Len(calls) = 1
    /\ origin = "adder"
    /\ Len(calls[1].args) = 2
    /\ Len(calls[1].log) = 2
    /\ calls[1].log[2].function_id = "sub"
    /\ calls[1].log[2].args = calls[1].args
    /\ calls[1].args[1] # calls[1].args[2]
    /\ held.core = "Int"

\* the calls given fewer arguments than the function needs
UnderSupplied(c) ==
    /\ c.callable.core = "Callable"
    /\ Len(c.callable.values) + Len(c.args) < needed_arg_count(c.callable.function_id)

\* C5 as stated: an under-supplied call executes nothing and returns a
\* Callable carrying all collected arguments in order, whose concrete type is
\* the callee's function type without the types of the supplied arguments.
C5_Original ==
    \A i \in 1..Len(calls) : UnderSupplied(calls[i]) =>
        /\ calls[i].log = << >>
        /\ calls[i].result.core = "Callable"
        /\ calls[i].result.values = calls[i].callable.values \o calls[i].args
        /\ calls[i].result.ty
             = get_func_type(function_types(calls[i].callable.function_id),
                             Len(calls[i].result.values))

\* C5 as amended: an under-supplied call executes nothing and returns a
\* Callable for the same function carrying all collected arguments in order;
\* its concrete type is the type the called value carried (the callee's whole
\* function type), not shortened by the supplied arguments.
C5_PartialKeepsType ==
    \A i \in 1..Len(calls) : UnderSupplied(calls[i]) =>
        /\ calls[i].log = << >>
        /\ ~calls[i].aborted
        /\ calls[i].result.core = "Callable"
        /\ calls[i].result.function_id = calls[i].callable.function_id
        /\ calls[i].result.sub_context = calls[i].callable.sub_context
        /\ calls[i].result.values = calls[i].callable.values \o calls[i].args
        /\ calls[i].result.ty = calls[i].callable.ty

\* triple given one argument and then a second one: still under-supplied
C5_Witness ==
    /\ Len(calls) = 2
    /\ origin = "triple"
    /\ UnderSupplied(calls[2])
    /\ Len(calls[2].callable.values) = 1
    /\ Len(held.values) = 2
    /\ held.ty = function_types("triple")

\* the positions of the items of a list that name the field with this index
ItemsOf(items, index) == {k \in 1..Len(items) : items[k].index = index}

\* the value the items give the field with this index: that of the last
\* item that names it
ItemValue(items, index, environment) ==
    LET final == CHOOSE k \in ItemsOf(items, index) : \A j \in ItemsOf(items, index) : j <= k
    IN  eval_expr(items[final].expr_id, environment, "main").value

\* the update of a RecordUpdate that applies to a record of this type
UpdateFor(updates, type_id) ==
    LET chosen == CHOOSE k \in 1..Len(updates) :
                     /\ updates[k].record_id = type_id
                     /\ \A j \in 1..k - 1 : updates[j].record_id # type_id
    IN  updates[chosen]

\* the value a record expression is to leave at position i of the record
FieldValue(i) ==
    CASE mcase.kind = "RecordInitialization" -> ItemValue(mcase.items, i - 1, menv)
      [] mcase.kind = "RecordConstructor" -> eval_expr(mcase.args[i], menv, "main").value
      [] mcase.kind = "RecordUpdate" ->
            LET old == eval_expr(mcase.record_expr_id, menv, "main").value
                items == UpdateFor(mcase.updates, old.type_id).items
            IN  IF ItemsOf(items, i - 1) = {} THEN old.values[i]
                ELSE ItemValue(items, i - 1, menv)

RecordKinds == {"RecordInitialization", "RecordUpdate", "RecordConstructor"}

\* C19: every Record(T, v) value that RecordInitialization, RecordUpdate or
\* a record constructor call produces has exactly as many fields as record T
\* declares, with the value of declared field i at position i, whatever the
\* order in which the initialisation or update items are listed.
C19_RecordFieldsInDeclarationOrder ==
    (mcase.kind \in RecordKinds /\ mresult.kind = "Value") =>
        /\ mresult.value.core = "Record"
        /\ Len(mresult.value.values) = Len(Typedefs(mresult.value.type_id).fields)
        /\ \A i \in 1..Len(mresult.value.values) : mresult.value.values[i] = FieldValue(i)

\* a record of three fields initialised with its items listed last field first
C19_Witness ==
    /\ mcase.kind = "RecordInitialization"
    /\ mcase.type_id = "Rgb"
    /\ mcase.items[1].index = 2
    /\ mcase.items[3].index = 0
    /\ mresult.kind = "Value"
    /\ mresult.value.values[1] # mresult.value.values[2]
    /\ mresult.value.values[1] = IntValue(1, IntTy)

\* a record updated by the second candidate, its items listed second field first
C19_UpdateWitness ==
    /\ mcase.kind = "RecordUpdate"
    /\ Len(mcase.updates) = 2
    /\ mcase.updates[2].items = <<Item("lit1", 1), Item("lit2", 0)>>
    /\ mresult = Evaluated(RecordValue("Pair", <<IntValue(2, IntTy), IntValue(1, IntTy)>>,
                                       NamedTy("Pair")))

\* a record built by a call of its constructor function
C19_ConstructorWitness ==
    /\ mcase.kind = "RecordConstructor"
    /\ mcase.args = <<"lit2", "lit1">>
    /\ mresult.kind = "Value"

\* the expressions of a non-empty Do were evaluated one after another in
\* list order in one child of the enclosing environment, each in the
\* environment the one before it left, up to the first that aborted; the
\* value of the last is the result
DoInOrder ==
    LET exprs == mcase.exprs
        trace == mcase.trace
        n == Len(trace)
    IN  /\ n >= 1
        /\ n <= Len(exprs)
        /\ \A k \in 1..n : trace[k].expr_id = exprs[k]
        /\ trace[1].before = block_child(menv)
        /\ \A k \in 2..n : trace[k].before = trace[k - 1].after
        /\ \A k \in 1..n :
              /\ Len(trace[k].after.frames) = Len(menv.frames) + 1
              /\ trace[k].result = eval_statement(exprs[k], trace[k].before).result
              /\ \A p \in BindingIds :
                    (Exprs(exprs[k]).kind = "Bind" /\ Exprs(exprs[k]).pattern_id = p
                        /\ trace[k].result # Panicked)
                    => \A j \in k + 1..n : get_value(trace[j].before, p) # Unbound
        /\ \A k \in 1..n - 1 : trace[k].result # Panicked
        /\ mresult = trace[n].result
        /\ n < Len(exprs) => mresult = Panicked

\* C20 as stated: Do([e1..en]) evaluates e1..en in list order in a single
\* child environment, a binding made by ei is visible to every later ej, and
\* the value of en is returned; a Do with an empty list returns Tuple[].
C20_Original ==
    mcase.kind = "Do" =>
        IF mcase.exprs = << >> THEN mresult = Evaluated(Unit) ELSE DoInOrder

\* C20 as amended: Do([e1..en]) evaluates e1..en in list order in a single
\* child environment, a binding made by ei is visible to every later ej, and
\* the value of en is returned; a Do with an empty list aborts on the
\* assert and returns nothing.
C20_DoSequence ==
    mcase.kind = "Do" =>
        IF mcase.exprs = << >> THEN mresult = Panicked /\ mcase.trace = << >>
        ELSE DoInOrder

\* x is bound by the first expression, y from x by the second, and the third
\* reads y: the block gives 1 although x is not bound outside it
C20_Witness ==
    /\ mcase.kind = "Do"
    /\ mcase.exprs = <<"bind_x_1", "bind_y_x", "val_y">>
    /\ get_value(menv, "x") = Unbound
    /\ mresult = Evaluated(IntValue(1, IntTy))

\* an empty Do was evaluated
C20_EmptyWitness ==
    /\ mcase.kind = "Do"
    /\ mcase.exprs = << >>
    /\ mresult = Panicked

\* ------------------------------------ claims about the name resolver

\* the errors one logged call pushed
PushedBy(entry) ==
    {entry.after[k] : k \in Len(entry.before) + 1..Len(entry.after)}

MemberErrorKinds ==
    {"MissingClassMemberInInstance", "NotAClassMember", "ClassMemberImplementedMultipleTimes"}

\* the member errors an instance declaration calls for
ExpectedMemberErrors(instance) ==
    LET members == instance.members
        implemented == {members[k] : k \in 1..Len(members)}
    IN  {ResolverError("MissingClassMemberInInstance", m, 0)
            : m \in {n \in ShapeMemberNames : ~ShapeMembers[n] /\ n \notin implemented}}
        \cup {ResolverError("NotAClassMember", members[k], k)
                 : k \in {j \in 1..Len(members) : members[j] \notin ShapeMemberNames}}
        \cup {ResolverError("ClassMemberImplementedMultipleTimes", members[k], k)
                 : k \in {j \in 1..Len(members) : \E i \in 1..j - 1 : members[i] = members[j]}}

\* the process_instance calls on instances whose class resolves
InstanceEntries ==
    {resolve_log[k] : k \in {j \in 1..Len(resolve_log) :
                                /\ resolve_log[j].kind = "instance"
                                /\ resolve_log[j].instance.class_name = "Shape"}}

\* process_instance pushed exactly the member errors the instance calls for
ReportsExactly(entry) ==
    /\ {e \in PushedBy(entry) : e.kind \in MemberErrorKinds}
         = ExpectedMemberErrors(entry.instance)
    /\ Len(entry.after) - Len(entry.before) = Cardinality(PushedBy(entry))

\* C21: for every instance declaration, process_instance reports
\* MissingClassMemberInInstance for exactly the members without default that
\* the instance does not implement, NotAClassMember for each implemented
\* function that is no member of the class, ClassMemberImplementedMultipleTimes
\* for each repeated implementation; an instance that produces none of these
\* errors has every class member implemented or defaulted.
C21_MemberErrorsExact ==
    \A entry \in InstanceEntries :
        /\ ReportsExactly(entry)
        /\ {e \in PushedBy(entry) : e.kind \in MemberErrorKinds} = {}
             => \A m \in ShapeMemberNames :
                    ShapeMembers[m] \/ \E k \in 1..Len(entry.instance.members) :
                                           entry.instance.members[k] = m

\* what holds of C21: the member errors are exact for an instance that
\* process_instance reaches with an empty errors vector and whose type
\* signature resolves
C21_ExactOnEmptyErrors ==
    \A entry \in InstanceEntries :
        (entry.before = << >> /\ ~entry.instance.bad_signature) => ReportsExactly(entry)

\* with errors already recorded, process_instance makes no member check
C21_SkippedOnErrors ==
    \A entry \in InstanceEntries :
        (entry.before # << >> \/ entry.instance.bad_signature)
            => {e \in PushedBy(entry) : e.kind \in MemberErrorKinds} = {}

\* a second instance that implements nothing is processed after a first one
\* that left an error
C21_SkippedWitness ==
    /\ Len(resolve_log) = 2
    /\ resolve_log[2].kind = "instance"
    /\ resolve_log[2].instance = AstInstance("Shape", FALSE, << >>)
    /\ resolve_log[1].after # << >>
    /\ resolve_log[2].after = resolve_log[1].after

\* the process_function calls of resolve
FunctionEntries ==
    {resolve_log[k] : k \in {j \in 1..Len(resolve_log) : resolve_log[j].kind = "function"}}

\* the errors resolve held when its instance loop ended
InstancePassErrors ==
    LET instances == {j \in 1..Len(resolve_log) : resolve_log[j].kind = "instance"}
    IN  IF instances = {} THEN << >>
        ELSE resolve_log[CHOOSE j \in instances : \A i \in instances : i <= j].after

\* C22: in Resolver::resolve and Typechecker::check the errors of a pass are
\* accumulated, and a pass that ends with an error makes the operation
\* return Err with those errors before any later pass runs: in resolve no
\* function body is processed after an instance error.
C22_NoPassAfterErrors ==
    /\ InstancePassErrors # << >> =>
          /\ FunctionEntries = {}
          /\ resolve_pc = "done" => resolve_result = Err(InstancePassErrors)
    /\ resolve_result.kind = "Err" => resolve_result.errors = resolve_errors

\* what holds of C22 in resolve: a pass before the instances that leaves an
\* error ends resolve at once, and resolve returns Err with every error
\* recorded whenever one was recorded, Ok otherwise
C22_ResolveReturnsAllErrors ==
    /\ resolve_pc = "done" =>
          /\ resolve_result = IF resolve_errors = << >> THEN Ok ELSE Err(resolve_errors)
          /\ (resolve_errors # << >> /\ resolve_errors[1].kind \in EarlyPasses)
                => resolve_log = << >>
    /\ resolve_pc # "done" => resolve_result.kind = "None"

\* what resolve does instead: function bodies are processed with the errors
\* of the instance loop still in the vector
C22_BodiesAfterInstanceError ==
    /\ resolve_pc = "done"
    /\ InstancePassErrors # << >>
    /\ FunctionEntries # {}
    /\ resolve_result.kind = "Err"
    /\ Len(resolve_result.errors) > Len(InstancePassErrors)

\* what holds of C22 in check: after an UntypedExternFunction or a
\* FunctionTypeDependencyLoop error check returns Err with the errors and
\* no body is type-checked; the errors of the bodies are accumulated
C22_CheckStopsBeforeBodies ==
    /\ check_pc # "idle" =>
          LET early == extern_errors(check_program, Ascending(FnIds))
                       \o check_function_deps(check_program,
                                              untyped_functions_of(check_program),
                                              << >>, 0).errors
          IN  /\ early # << >> => /\ check_log = << >>
                                   /\ check_pc = "done"
                                   /\ check_result = Err(early)
              /\ early = << >> /\ check_pc = "done"
                   => check_result = IF check_errors = << >> THEN Ok ELSE Err(check_errors)
    /\ \A k \in 1..Len(check_log) :
          /\ check_log[k].function_id = check_order[k]
          /\ Len(check_log[k].before) <= Len(check_errors)

\* check returned Err for a program with an untyped extern function and a
\* dependency loop, both errors in the result
C22_CheckWitness ==
    /\ check_pc = "done"
    /\ check_log = << >>
    /\ check_result.kind = "Err"
    /\ Len(check_result.errors) = 2
    /\ check_result.errors[2].kind = "FunctionTypeDependencyLoop"

\* ------------------------------------------- claims about the id counters

\* the calls of one getter of one program, in the order they were made
CallsOf(program, kind) ==
    {k \in 1..Len(issued) : issued[k].program = program /\ issued[k].kind = kind}

\* the ids one getter returned are 0, 1, 2, ... in the order of the calls
Dense(program, kind) ==
    \A k \in CallsOf(program, kind) :
        issued[k].id = Cardinality({j \in CallsOf(program, kind) : j < k})

\* C23: each kind of identifier has its own monotonic counter: the ids that
\* successive get_<kind>_id calls on a Program return are 0, 1, 2, ...
\* however calls for other kinds are interleaved.
C23_PerKindDenseIds ==
    /\ \A kind \in SyntaxKinds : Dense("syntax", kind)
    /\ \A kind \in IrKinds : Dense("ir", kind)

\* what holds of C23: the ids of ir::Program are dense per kind, and so are
\* those of syntax::Program for every kind but module and function
C23_DenseButModuleAndFunction ==
    /\ \A kind \in SyntaxKinds \ {"module", "function"} : Dense("syntax", kind)
    /\ \A kind \in IrKinds : Dense("ir", kind)
    /\ \A k \in CallsOf("syntax", "module") \cup CallsOf("syntax", "function") :
          issued[k].id = Cardinality({j \in CallsOf("syntax", "module")
                                              \cup CallsOf("syntax", "function") : j < k})
    /\ syntax_program["function"] = 0

\* ids of three kinds asked in turn from ir::Program, each kind twice
C23_InterleavedWitness ==
    /\ Len(issued) = 4
    /\ issued[1] = [program |-> "ir", kind |-> "function", id |-> 0]
    /\ issued[2] = [program |-> "ir", kind |-> "expr", id |-> 0]
    /\ issued[3] = [program |-> "ir", kind |-> "function", id |-> 1]
    /\ issued[4] = [program |-> "ir", kind |-> "expr", id |-> 1]

\* ------------------------------------ claims about check_function_deps

\* the untyped dependencies of a function of the program checked
UntypedDeps(id) ==
    check_program[id].function_deps \cap untyped_functions_of(check_program)

\* b is reached from a by at most n static calls among untyped functions
RECURSIVE CallsWithin(_, _, _)
CallsWithin(a, b, n) ==
    IF n = 0 THEN FALSE
    ELSE \/ b \in UntypedDeps(a)
         \/ \E c \in UntypedDeps(a) : CallsWithin(c, b, n - 1)

\* some untyped function calls itself, directly or through others
HasUntypedCycle == \E id \in untyped_functions_of(check_program) : CallsWithin(id, id, MaxFns)

OrderSet == {check_order[k] : k \in 1..Len(check_order)}

\* C28: check_function_deps terminates on every finite dependency graph and
\* returns a check order in which each function appears at most once and
\* only after every not-yet-typed function it statically calls.
C28_DependenciesFirst ==
    check_pc # "idle" =>
        /\ check_function_deps(check_program, untyped_functions_of(check_program),
                               << >>, 0).passes
             <= Cardinality(untyped_functions_of(check_program)) + 1
        /\ OrderSet \subseteq untyped_functions_of(check_program)
        /\ \A j, k \in 1..Len(check_order) : check_order[j] = check_order[k] => j = k
        /\ \A k \in 1..Len(check_order) :
              \A d \in UntypedDeps(check_order[k]) :
                  \E j \in 1..k - 1 : check_order[j] = d
        /\ ~HasUntypedCycle => OrderSet = untyped_functions_of(check_program)

\* three untyped functions, 1 calls 2 and 3, 2 calls 3: the order is 3, 2, 1
C28_Witness ==
    /\ check_pc = "bodies"
    /\ check_program = [id \in FnIds |->
                            Fn("untyped", IF id = 1 THEN {2, 3} ELSE IF id = 2 THEN {3} ELSE {})]
    /\ check_order = <<3, 2, 1>>

\* C29: functions without type signatures that call themselves or each
\* other form one dependency group and are type-checked as a unit; the
\* checker accepts them and reports no dependency-loop error.
C29_RecursiveGroupAccepted ==
    check_pc # "idle" =>
        /\ \A k \in 1..Len(check_errors) : check_errors[k].kind # "FunctionTypeDependencyLoop"
        /\ (\A id \in FnIds : check_program[id].kind # "extern")
              => /\ check_pc # "done" \/ Len(check_log) = Len(check_order)
                 /\ OrderSet = untyped_functions_of(check_program)

\* what check_function_deps does instead: a FunctionTypeDependencyLoop
\* error is reported exactly when an untyped function calls itself directly
\* or through other untyped functions, and then neither that function nor
\* any that depends on it gets into the check order
C29_RecursionRejected ==
    check_pc # "idle" =>
        /\ HasUntypedCycle
             <=> \E k \in 1..Len(check_errors) :
                    check_errors[k].kind = "FunctionTypeDependencyLoop"
        /\ \A id \in untyped_functions_of(check_program) :
              CallsWithin(id, id, MaxFns) => id \notin OrderSet

\* the self-recursive factorial: function 1 has no signature and calls
\* itself, main (2) calls it; check returns the dependency-loop error
C29_FactorialWitness ==
    /\ check_pc = "done"
    /\ check_program = [id \in FnIds |->
                            IF id = 1 THEN Fn("untyped", {1})
                            ELSE IF id = 2 THEN Fn("untyped", {1}) ELSE Fn("typed", {})]
    /\ check_result = Err(<<TypecheckError("FunctionTypeDependencyLoop", 0)>>)
    /\ check_order = << >>


\* ------------------------------------ claims on the Unifier walk

\* the type a variable resolves to in a store, as a tree that is cut where
\* a type contains itself
RECURSIVE resolved_below(_, _, _)
resolved_below(st, var, above) ==
    LET ty == get_type(st, var)
        here == above \cup {get_index(st, var)}
    IN  CASE get_index(st, var) \in above -> [k |-> "Recursive", index |-> get_index(st, var)]
          [] ty.k = "Function" ->
                [k |-> "Function", from |-> resolved_below(st, ty.from, here),
                 to |-> resolved_below(st, ty.to, here)]
          [] ty.k \in {"Tuple", "Named"} ->
                [k |-> ty.k, name |-> IF ty.k = "Named" THEN ty.name ELSE "",
                 items |-> [i \in 1..Len(ty.items) |-> resolved_below(st, ty.items[i], here)]]
          [] OTHER -> ty

resolved(st, var) == resolved_below(st, var, {})

Arrow(from, to) == [k |-> "Function", from |-> from, to |-> to]

\* the variables of a store
VarsOf(st) == 1..st.var_counter

\* the calls whose check is in the log
CallChecked == tc_log.kind = "StaticFunctionCall"

\* a unify that static_function_call made and that returned false
FailedUnify(step) == step.is_function /\ ~step.ok

\* a failed unify left every variable of the store resolving as before
Restored(step) ==
    \A v \in VarsOf(step.before) : resolved(step.after, v) = resolved(step.before, v)

\* C30: when unify returns false, every variable of the store resolves to
\* the type it resolved to before the call: no binding made for an earlier
\* child of a Function, Tuple or Named type survives the failure of a later
\* child.
C30_UnifyAtomicOnFailure ==
    CallChecked =>
        \A i \in 1..Len(tc_log.steps) : FailedUnify(tc_log.steps[i]) => Restored(tc_log.steps[i])

\* the two types of a unify have no children
Childless(step) ==
    get_type(step.before, step.ty.from).k \notin {"Function", "Tuple", "Named"}
    \/ get_type(step.before, step.arg).k \notin {"Function", "Tuple", "Named"}

\* a unify that fails on types without children changes nothing
C30_AtomicWithoutChildren ==
    CallChecked =>
        \A i \in 1..Len(tc_log.steps) :
            FailedUnify(tc_log.steps[i]) /\ Childless(tc_log.steps[i])
                => tc_log.steps[i].after = tc_log.steps[i].before

\* app const1: the argument type of const1 is bound to Int although the
\* unify of Int -> Bool with a -> Int fails
C30_LeakWitness ==
    /\ CallChecked
    /\ tc_log.function_id = "app" /\ tc_log.arg_kinds = <<"const1">>
    /\ tc_log.failed
    /\ ~Restored(tc_log.steps[1])

\* all k arguments of the call were unified with their segments
WalkSucceeded ==
    /\ Len(tc_log.steps) = Len(tc_log.arg_vars)
    /\ \A i \in 1..Len(tc_log.steps) : tc_log.steps[i].is_function /\ tc_log.steps[i].ok

\* the walk takes the arguments left to right, each against the first
\* segment of what the arguments before it left of the callee type, and
\* stops at the first that fails
WalkLeftToRight ==
    /\ Len(tc_log.steps) <= Len(tc_log.arg_vars)
    /\ \A i \in 1..Len(tc_log.steps) :
          LET step == tc_log.steps[i] IN
          /\ step.arg = tc_log.arg_vars[i]
          /\ step.function_type_var =
                IF i = 1 THEN tc_log.function_type_var ELSE tc_log.steps[i - 1].ty.to
          /\ step.ty = get_type(step.before, step.function_type_var)
          /\ i < Len(tc_log.steps) => step.is_function /\ step.ok
    /\ Len(tc_log.steps) < Len(tc_log.arg_vars) =>
          /\ tc_log.steps # << >>
          /\ ~(tc_log.steps[Len(tc_log.steps)].is_function /\ tc_log.steps[Len(tc_log.steps)].ok)

\* what is left of the callee type after the k arguments
Suffix ==
    IF tc_log.steps = << >> THEN tc_log.function_type_var
    ELSE tc_log.steps[Len(tc_log.steps)].ty.to

\* the variable of the call expression is the argument it was created as,
\* and no other variable of the store has its type
Untouched(st, var) ==
    /\ get_type(st, var) = get_type(tc_log.prepared, var)
    /\ get_type(st, var).k = "TypeArgument"
    /\ \A v \in VarsOf(st) \ {var} : get_index(st, v) # get_index(st, var)

\* what is left of add :: Int -> Int -> Int after k arguments
AddSuffix(k) ==
    CASE k = 0 -> Arrow(TInt, Arrow(TInt, TInt))
      [] k = 1 -> Arrow(TInt, TInt)
      [] k = 2 -> TInt

\* a call of add outside its group succeeds exactly if it has at most two
\* arguments and each can be an Int, and its type is then the suffix
AddCallAsDeclared ==
    tc_log.function_id = "add" /\ ~tc_log.in_group =>
        /\ WalkSucceeded <=>
              /\ Len(tc_log.arg_kinds) <= 2
              /\ \A i \in 1..Len(tc_log.arg_kinds) : tc_log.arg_kinds[i] \in {"int", "free"}
        /\ WalkSucceeded =>
              resolved(store, tc_log.expr_var) = AddSuffix(Len(tc_log.arg_kinds))

\* C24: a call with k arguments whose arguments all unify, left to right,
\* with the segments of the callee type reports no error and its type is
\* the remaining suffix; if the resolved callee type has fewer arrows than
\* k, or some argument fails to unify, exactly one FunctionArgumentMismatch
\* is reported and the variable of the call is unified with nothing.
C24_CallAgainstCurriedType ==
    CallChecked =>
        /\ WalkLeftToRight
        /\ tc_log.failed = ~WalkSucceeded
        /\ WalkSucceeded =>
              /\ tc_log.pushed = << >>
              /\ get_index(store, tc_log.expr_var) = get_index(store, Suffix)
              /\ \A i \in 1..Len(tc_log.arg_vars) :
                    resolved(store, tc_log.arg_vars[i])
                        = resolved(store, tc_log.steps[i].ty.from)
        /\ ~WalkSucceeded =>
              /\ tc_log.pushed = <<TypecheckError("FunctionArgumentMismatch", tc_log.expr_var)>>
              /\ Untouched(store, tc_log.expr_var)
        /\ AddCallAsDeclared

\* add 1: the partial application has type Int -> Int
C24_PartialWitness ==
    /\ CallChecked
    /\ tc_log.function_id = "add" /\ tc_log.arg_kinds = <<"int">>
    /\ tc_log.pushed = << >>
    /\ resolved(store, tc_log.expr_var) = Arrow(TInt, TInt)

\* id 1 2: the resolved callee type has one arrow
C24_TooManyWitness ==
    /\ CallChecked
    /\ tc_log.function_id = "id" /\ tc_log.arg_kinds = <<"int", "int">>
    /\ Len(tc_log.steps) = 2 /\ ~tc_log.steps[2].is_function
    /\ Len(tc_log.pushed) = 1

\* add 1 True: the second argument fails to unify
C24_MismatchWitness ==
    /\ CallChecked
    /\ tc_log.function_id = "add" /\ tc_log.arg_kinds = <<"int", "bool">>
    /\ Len(tc_log.steps) = 2 /\ tc_log.steps[2].is_function /\ ~tc_log.steps[2].ok
    /\ Len(tc_log.pushed) = 1

\* the variables a type reaches in a store
RECURSIVE ReachedBelow(_, _, _)
ReachedBelow(st, var, above) ==
    LET ty == get_type(st, var)
        here == above \cup {get_index(st, var)}
    IN  {var} \cup
        CASE get_index(st, var) \in above -> {}
          [] ty.k = "Function" ->
                ReachedBelow(st, ty.from, here) \cup ReachedBelow(st, ty.to, here)
          [] ty.k \in {"Tuple", "Named"} ->
                UNION {ReachedBelow(st, ty.items[i], here) : i \in 1..Len(ty.items)}
          [] OTHER -> {}

Reached(st, var) == ReachedBelow(st, var, {})

\* a type with the numbers of its type arguments left out
RECURSIVE Shape(_)
Shape(tree) ==
    CASE tree.k = "Function" -> Arrow(Shape(tree.from), Shape(tree.to))
      [] tree.k \in {"Tuple", "Named"} ->
            [tree EXCEPT !.items = [i \in 1..Len(tree.items) |-> Shape(tree.items[i])]]
      [] tree.k = "TypeArgument" -> [k |-> "TypeArgument", constraints |-> tree.constraints]
      [] OTHER -> tree

\* the clone a call outside the group is checked against: a copy of the
\* callee type over new variables and new indices that share as the
\* originals share
FreshClone ==
    LET callee == function_type_of(tc_log.function_id)
        before == tc_log.prepared
        after == tc_log.entered
        cloned == tc_log.cloned
    IN  /\ DOMAIN cloned = Reached(before, callee)
        /\ tc_log.function_type_var = cloned[callee]
        /\ \A u \in DOMAIN cloned :
              /\ cloned[u] > before.var_counter
              /\ get_index(after, cloned[u]) > before.index_counter
              /\ Shape(resolved(after, cloned[u])) = Shape(resolved(before, u))
        /\ \A u, v \in DOMAIN cloned :
              (get_index(before, u) = get_index(before, v))
                  <=> (get_index(after, cloned[u]) = get_index(after, cloned[v]))
        /\ \A u, v \in DOMAIN cloned : u # v => cloned[u] # cloned[v]

\* the stored types of the functions outside the group are what the passes
\* before the walk made them
CalleesUnchanged ==
    \A g \in TypedFunctionIds \ tc_group :
        \A v \in Reached(DeclaredStore, function_type_of(g)) :
            /\ get_index(store, v) = get_index(DeclaredStore, v)
            /\ get_type(store, v) = get_type(DeclaredStore, v)

\* C27: a call to a function outside the group is checked against a clone
\* of the callee type over new variables and new indices, in which the
\* variables that shared a type share one new type, and the check changes
\* no stored function type; a call inside the group is checked against the
\* callee's own variable, and nothing is cloned.
C27_CloneOutsideGroup ==
    /\ tc_log.kind # "None" => CalleesUnchanged
    /\ CallChecked =>
          IF tc_log.in_group
          THEN /\ tc_log.function_type_var = function_type_of(tc_log.function_id)
               /\ tc_log.entered = tc_log.prepared
          ELSE FreshClone

\* id 1 and then id True, outside the group of id: both are accepted, one
\* at Int and one at Bool
C27_TwoSitesWitness ==
    /\ CallChecked /\ tc_log.earlier.kind = "StaticFunctionCall"
    /\ tc_log.function_id = "id" /\ tc_log.earlier.function_id = "id"
    /\ ~tc_log.in_group /\ ~tc_log.earlier.in_group
    /\ tc_log.earlier.arg_kinds = <<"int">> /\ tc_log.arg_kinds = <<"bool">>
    /\ tc_errors = << >>
    /\ resolved(store, tc_log.earlier.expr_var) = TInt
    /\ resolved(store, tc_log.expr_var) = TBool
    /\ get_index(store, tc_log.steps[1].ty.from) = get_index(store, tc_log.steps[1].ty.to)

\* id 1 inside the group of id: the callee's own type is now Int -> Int
C27_InGroupWitness ==
    /\ CallChecked
    /\ tc_log.function_id = "id" /\ tc_log.in_group /\ tc_log.arg_kinds = <<"int">>
    /\ resolved(store, function_type_of("id")) = Arrow(TInt, TInt)


\* the field accesses whose check is in the log
FieldAccessChecked == tc_log.kind = "FieldAccess"

\* the candidates whose record type the receiver's type can be: any, when
\* the receiver is an unconstrained variable, else the record of its name
Unifying ==
    LET infos == FieldAccessInfos(tc_log.field)
        receiver == resolved(tc_log.prepared, tc_log.record_expr_var)
    IN  {i \in 1..Len(infos) :
            \/ receiver.k = "TypeArgument"
            \/ receiver.k = "Named" /\ receiver.name = infos[i].record_id}

\* the names of the candidates in a set of positions, in candidate order
RECURSIVE NamesOf(_, _, _)
NamesOf(infos, positions, k) ==
    IF k > Len(infos) THEN << >>
    ELSE (IF k \in positions THEN <<infos[k].record_id>> ELSE << >>)
         \o NamesOf(infos, positions, k + 1)

\* the type of a field of a record whose resolved type is given
FieldTypeOf(record, info) ==
    IF info.record_id = "Box" THEN record.items[1]
    ELSE resolved(DeclaredStore, record_type_info_map(info.record_id).field_types[info.index])

\* every variable of the store before the check has the index and the type
\* it had
Preserved(before, after) ==
    \A v \in VarsOf(before) :
        /\ get_index(after, v) = get_index(before, v)
        /\ get_type(after, v) = get_type(before, v)

\* C25: a FieldAccess with exactly one candidate whose record type unifies
\* with the receiver's type unifies the receiver with that record type and
\* the expression with the type of the field, without error; with none it
\* reports one TypeMismatch; with more than one it reports one
\* AmbiguousFieldAccess that names every matching record; with none or
\* more than one the receiver's type is what it was before.
C25_FieldAccessByCandidates ==
    FieldAccessChecked =>
        LET infos == FieldAccessInfos(tc_log.field)
            receiver == resolved(store, tc_log.record_expr_var)
        IN  CASE Cardinality(Unifying) = 1 ->
                    LET info == infos[CHOOSE i \in Unifying : TRUE] IN
                    /\ tc_log.pushed = << >>
                    /\ receiver.k = "Named" /\ receiver.name = info.record_id
                    /\ resolved(store, tc_log.expr_var) = FieldTypeOf(receiver, info)
              [] Cardinality(Unifying) = 0 ->
                    /\ tc_log.pushed = <<TypecheckError("TypeMismatch", tc_log.expr_var)>>
                    /\ Preserved(tc_log.prepared, store)
              [] OTHER ->
                    /\ tc_log.pushed = <<AmbiguousFieldAccess(tc_log.expr_var,
                                                              NamesOf(infos, Unifying, 1))>>
                    /\ Preserved(tc_log.prepared, store)

\* (Person { .. }).age: of Person and Pet only Person unifies
C25_OneWitness ==
    /\ FieldAccessChecked
    /\ tc_log.field = "age" /\ tc_log.receiver = "last"
    /\ tc_log.earlier.kind = "RecordInitialization" /\ tc_log.earlier.type_id = "Person"
    /\ tc_log.pushed = << >>
    /\ resolved(store, tc_log.expr_var) = TInt

\* x.age with nothing known of x: Person and Pet both unify
C25_AmbiguousWitness ==
    /\ FieldAccessChecked
    /\ tc_log.field = "age" /\ tc_log.receiver = "free"
    /\ tc_log.pushed = <<AmbiguousFieldAccess(tc_log.expr_var, <<"Person", "Pet">>)>>
    /\ resolved(store, tc_log.record_expr_var).k = "TypeArgument"

\* 1.age: neither unifies
C25_NoneWitness ==
    /\ FieldAccessChecked
    /\ tc_log.field = "age" /\ tc_log.receiver = "int"
    /\ tc_log.pushed = <<TypecheckError("TypeMismatch", tc_log.expr_var)>>

\* x.value with nothing known of x: x is a Box a and the expression the a
C25_GenericWitness ==
    /\ FieldAccessChecked
    /\ tc_log.field = "value" /\ tc_log.receiver = "free"
    /\ tc_log.pushed = << >>
    /\ resolved(store, tc_log.record_expr_var).k = "Named"
    /\ resolved(store, tc_log.expr_var).k = "TypeArgument"
    /\ resolved(store, tc_log.expr_var) = resolved(store, tc_log.record_expr_var).items[1]

\* the record initializations whose check is in the log
RecordInitChecked == tc_log.kind = "RecordInitialization"

\* the declared type of field index of the record, Unknown for the field
\* of Box a
DeclaredFieldKind(record_id, index) ==
    LET ty == get_type(DeclaredStore, record_type_info_map(record_id).field_types[index])
    IN  CASE ty.k = "Int" -> "int" [] ty.k = "Bool" -> "bool" [] OTHER -> "free"

\* an expression of a kind can have the type of a field
Fits(kind, field_kind) == kind = "free" \/ field_kind = "free" \/ kind = field_kind

\* the items that do not fit the field at position_of(k), in list order
RECURSIVE Misfits(_, _, _)
Misfits(log, field_at, k) ==
    IF k > Len(log.items) THEN << >>
    ELSE (IF Fits(log.items[k].kind, DeclaredFieldKind(log.type_id, field_at[k]))
          THEN << >> ELSE <<TypecheckError("TypeMismatch", log.item_vars[k])>>)
         \o Misfits(log, field_at, k + 1)

\* each item was checked against the field that field_at gives it: the
\* errors are those of the items that do not fit, and an item that fits
\* has the type of the field in the one instantiation of the record
CheckedAgainst(field_at) ==
    /\ tc_log.pushed = Misfits(tc_log, field_at, 1)
    /\ \A k \in 1..Len(tc_log.items) :
          Fits(tc_log.items[k].kind, DeclaredFieldKind(tc_log.type_id, field_at[k]))
              => resolved(store, tc_log.item_vars[k])
                     = resolved(store, tc_log.info.field_types[field_at[k]])
    /\ resolved(store, tc_log.expr_var) = resolved(store, tc_log.info.record_type)

\* C26: RecordInitialization(T, items) checks the expression of each item
\* against the type of the field whose declaration index is item.index, in
\* one new instantiation of T, whatever the position of the item in the
\* list.
C26_ItemsByDeclarationIndex ==
    RecordInitChecked => CheckedAgainst([k \in 1..Len(tc_log.items) |-> tc_log.items[k].index])

\* each item is checked against the field at the item's position in the
\* list
C26_ItemsByPosition ==
    RecordInitChecked => CheckedAgainst([k \in 1..Len(tc_log.items) |-> k])

\* items listed in the order of the declaration are checked against their
\* own fields
C26_InDeclarationOrder ==
    RecordInitChecked /\ (\A k \in 1..Len(tc_log.items) : tc_log.items[k].index = k)
        => CheckedAgainst([k \in 1..Len(tc_log.items) |-> tc_log.items[k].index])

\* Pair { second = True, first = 1 }: both items are reported
C26_ReorderedWitness ==
    /\ RecordInitChecked
    /\ tc_log.type_id = "Pair"
    /\ tc_log.items = <<RecordInitItem(2, "bool"), RecordInitItem(1, "int")>>
    /\ Len(tc_log.pushed) = 2

====
